---------------------------- MODULE Spec2Model ----------------------------
(***************************************************************************)
(* Model of the query-understanding and retrieval pipeline of the startup  *)
(* ecosystem intelligence service:                                         *)
(*   backend/api/graph_rag_service.py  GraphRAGService (query analysis,    *)
(*                                     routing, search, result assembly)   *)
(*   backend/utils/neo4j_store.py      Neo4jStore (vector, hybrid, filter  *)
(*                                     and batch queries)                  *)
(*   backend/api/main.py               rate_limit (per-caller rate limiter) *)
(* Text is modelled as strings and handled character by character, the way *)
(* the Python code and its regular expressions handle it.                  *)
(***************************************************************************)
EXTENDS Integers, Sequences, FiniteSets, TLC

(***************************************************************************)
(* Text primitives (Python str / re semantics)                             *)
(***************************************************************************)
Min(a, b) == IF a <= b THEN a ELSE b
Max(a, b) == IF a >= b THEN a ELSE b

\* s[i] as a one-character string, i counted from 1; "" outside the string
CharAt(s, i) == IF i >= 1 /\ i <= Len(s) THEN SubSeq(s, i, i) ELSE ""

\* Python slice s[a:b] with 0-based offsets, clamped to the string
Slice(s, a, b) ==
    LET lo == Min(Max(a, 0), Len(s))
        hi == Min(Max(b, 0), Len(s))
    IN  IF lo >= hi THEN "" ELSE SubSeq(s, lo + 1, hi)

UpperChars == "ABCDEFGHIJKLMNOPQRSTUVWXYZ"
LowerChars == "abcdefghijklmnopqrstuvwxyz"
DigitChars == "0123456789"

IsUpper(c) == \E i \in 1..26 : SubSeq(UpperChars, i, i) = c
IsLower(c) == \E i \in 1..26 : SubSeq(LowerChars, i, i) = c
IsDigit(c) == \E i \in 1..10 : SubSeq(DigitChars, i, i) = c
IsSpace(c) == c = " "
\* \w of the re module
IsWordChar(c) == IsUpper(c) \/ IsLower(c) \/ IsDigit(c) \/ c = "_"

RECURSIVE LowerFrom(_, _)
LowerFrom(s, i) ==
    IF i > Len(s) THEN ""
    ELSE LET c == CharAt(s, i)
             l == IF IsUpper(c)
                  THEN LET k == CHOOSE j \in 1..26 : SubSeq(UpperChars, j, j) = c
                       IN  SubSeq(LowerChars, k, k)
                  ELSE c
         IN  l \o LowerFrom(s, i + 1)
\* str.lower()
ToLower(s) == LowerFrom(s, 1)

\* t occurs in s at 1-based position i
OccursAt(s, t, i) == i >= 1 /\ i + Len(t) - 1 <= Len(s) /\ SubSeq(s, i, i + Len(t) - 1) = t
\* the same, ignoring the case of s (t is lower case)
OccursAtCI(s, t, i) ==
    i >= 1 /\ i + Len(t) - 1 <= Len(s) /\ ToLower(SubSeq(s, i, i + Len(t) - 1)) = t
\* Python "t in s"
Contains(s, t) == \E i \in 1..(Len(s) - Len(t) + 1) : OccursAt(s, t, i)
\* any(t in s for t in terms)
ContainsAny(s, terms) == \E t \in terms : Contains(s, t)

\* \b of the re module between positions i-1 and i (1-based position i of the
\* character that follows the boundary)
WordBoundary(s, i) == IsWordChar(CharAt(s, i - 1)) # IsWordChar(CharAt(s, i))
\* re.search(r"\bw\b", s) for a literal w that starts and ends with a word character
ContainsWord(s, w) ==
    \E i \in 1..(Len(s) - Len(w) + 1) :
        OccursAt(s, w, i) /\ WordBoundary(s, i) /\ WordBoundary(s, i + Len(w))

\* greedy runs: the first position at or after i that does not hold a
\* whitespace / digit / word character
RECURSIVE SkipSpaces(_, _)
SkipSpaces(s, i) == IF IsSpace(CharAt(s, i)) THEN SkipSpaces(s, i + 1) ELSE i
RECURSIVE SkipDigits(_, _)
SkipDigits(s, i) == IF IsDigit(CharAt(s, i)) THEN SkipDigits(s, i + 1) ELSE i
RECURSIVE SkipWord(_, _)
SkipWord(s, i) == IF IsWordChar(CharAt(s, i)) THEN SkipWord(s, i + 1) ELSE i

\* int(s) for a string of decimal digits, from position i with acc so far
RECURSIVE ParseIntFrom(_, _, _)
ParseIntFrom(s, i, acc) ==
    IF i > Len(s) THEN acc
    ELSE LET digit == (CHOOSE j \in 1..10 : SubSeq(DigitChars, j, j) = CharAt(s, i)) - 1
         IN  ParseIntFrom(s, i + 1, 10 * acc + digit)

\* str.rstrip('s')
RECURSIVE RStripS(_)
RStripS(s) == IF Len(s) > 0 /\ CharAt(s, Len(s)) = "s" THEN RStripS(SubSeq(s, 1, Len(s) - 1)) ELSE s

\* str.strip()
Strip(s) ==
    LET a == SkipSpaces(s, 1)
        b == CHOOSE k \in 0..Len(s) :
                 /\ k = 0 \/ ~IsSpace(CharAt(s, k))
                 /\ \A j \in (k + 1)..Len(s) : IsSpace(CharAt(s, j))
    IN  IF a > b THEN "" ELSE SubSeq(s, a, b)

\* ' '.join(s.split()): runs of whitespace become one space, none at the ends
RECURSIVE JoinSplitFrom(_, _, _)
JoinSplitFrom(s, i, acc) ==
    IF i > Len(s) THEN acc
    ELSE IF IsSpace(CharAt(s, i)) THEN JoinSplitFrom(s, SkipSpaces(s, i), acc)
    ELSE LET e == CHOOSE k \in i..(Len(s) + 1) :
                     /\ \A j \in i..(k - 1) : ~IsSpace(CharAt(s, j))
                     /\ (k = Len(s) + 1 \/ IsSpace(CharAt(s, k)))
             w == SubSeq(s, i, e - 1)
         IN  JoinSplitFrom(s, e, IF acc = "" THEN w ELSE acc \o " " \o w)

\* len(s.split())
RECURSIVE CountWordsFrom(_, _)
CountWordsFrom(s, i) ==
    IF i > Len(s) THEN 0
    ELSE IF IsSpace(CharAt(s, i)) THEN CountWordsFrom(s, i + 1)
    ELSE 1 + CountWordsFrom(s, SkipSpaces(s, CHOOSE k \in i..(Len(s) + 1) :
                     /\ \A j \in i..(k - 1) : ~IsSpace(CharAt(s, j))
                     /\ (k = Len(s) + 1 \/ IsSpace(CharAt(s, k)))))

(***************************************************************************)
(* GraphRAGService._extract_numeric_filters                                *)
(***************************************************************************)
NoMatch == [ok |-> FALSE, end |-> 0, value |-> 0, metric |-> ""]

\* the common tail of every comparison pattern from position j on:
\*   \s* or \s+ , (\d+) , \s+ , (\w+)
NumberMetricTail(q, j, spaceOptional) ==
    LET j1 == SkipSpaces(q, j)
        d  == SkipDigits(q, j1)
        s2 == SkipSpaces(q, d)
        w  == SkipWord(q, s2)
    IN  IF (spaceOptional \/ j1 > j) /\ d > j1 /\ s2 > d /\ w > s2
        THEN [ok |-> TRUE, end |-> w, value |-> ParseIntFrom(SubSeq(q, j1, d - 1), 1, 0),
              metric |-> SubSeq(q, s2, w - 1)]
        ELSE NoMatch

\* a phrase of literal words joined by \s+ (re.IGNORECASE), matched at position
\* i: the position after it, or 0
RECURSIVE PhraseEnd(_, _, _)
PhraseEnd(q, i, words) ==
    IF words = << >> THEN i
    ELSE LET w == Head(words)
         IN  IF ~OccursAtCI(q, w, i) THEN 0
             ELSE IF Len(words) = 1 THEN i + Len(w)
             ELSE LET j == SkipSpaces(q, i + Len(w))
                  IN  IF j = i + Len(w) THEN 0 ELSE PhraseEnd(q, j, Tail(words))

\* (phrase1|phrase2|...)\s+(\d+)\s+(\w+) at position i: the first alternative
\* that lets the whole pattern match
RECURSIVE PhrasePatternAt(_, _, _, _)
PhrasePatternAt(q, i, phrases, k) ==
    IF k > Len(phrases) THEN NoMatch
    ELSE LET e == PhraseEnd(q, i, phrases[k])
             t == IF e = 0 THEN NoMatch ELSE NumberMetricTail(q, e, FALSE)
         IN  IF t.ok THEN t ELSE PhrasePatternAt(q, i, phrases, k + 1)

\* ([><]=?)\s*(\d+)\s+(\w+) at position i
SymbolPatternAt(q, i) ==
    IF CharAt(q, i) \in {">", "<"}
    THEN LET j == IF CharAt(q, i + 1) = "=" THEN i + 2 ELSE i + 1
         IN  NumberMetricTail(q, j, TRUE)
    ELSE NoMatch

\* (\d+)\+\s+(\w+) at position i
PlusPatternAt(q, i) ==
    LET d  == SkipDigits(q, i)
        s2 == SkipSpaces(q, d + 1)
        w  == SkipWord(q, s2)
    IN  IF d > i /\ CharAt(q, d) = "+" /\ s2 > d + 1 /\ w > s2
        THEN [ok |-> TRUE, end |-> w, value |-> ParseIntFrom(SubSeq(q, i, d - 1), 1, 0),
              metric |-> SubSeq(q, s2, w - 1)]
        ELSE NoMatch

NumPatterns == 6
\* comparison_patterns[p] matched at position i; the alternatives of a phrase
\* pattern are in the order the regular expression lists them, and "of?" is
\* tried with the f first
PatternAt(p, q, i) ==
    CASE p = 1 -> SymbolPatternAt(q, i)
      [] p = 2 -> PlusPatternAt(q, i)
      [] p = 3 -> PhrasePatternAt(q, i, << <<"more", "than">>, <<"greater", "than">>,
                                           <<"over">>, <<"above">> >>, 1)
      [] p = 4 -> PhrasePatternAt(q, i, << <<"less", "than">>, <<"fewer", "than">>,
                                           <<"under">>, <<"below">> >>, 1)
      [] p = 5 -> PhrasePatternAt(q, i, << <<"at", "least">>, <<"minimum", "of">>,
                                           <<"minimum", "o">>, <<"no", "less", "than">> >>, 1)
      [] OTHER -> PhrasePatternAt(q, i, << <<"at", "most">>, <<"maximum", "of">>,
                                           <<"maximum", "o">>, <<"no", "more", "than">> >>, 1)

\* the operator_func of comparison_patterns[p]
OpType(p, q, i) ==
    CASE p = 1 -> IF CharAt(q, i) = ">" THEN "min" ELSE "max"
      [] p \in {2, 3, 5} -> "min"
      [] OTHER -> "max"

\* re.finditer(pattern, query): leftmost non-overlapping matches from pos on,
\* as (match.start(), match.end(), filter_key, value) with 0-based offsets
RECURSIVE FindIter(_, _, _)
FindIter(p, q, pos) ==
    IF pos > Len(q) THEN << >>
    ELSE LET m == PatternAt(p, q, pos)
         IN  IF m.ok
             THEN << [start |-> pos - 1, end |-> m.end - 1,
                      key |-> OpType(p, q, pos) \o "_" \o RStripS(m.metric),
                      value |-> m.value] >> \o FindIter(p, q, m.end)
             ELSE FindIter(p, q, pos + 1)

RECURSIVE AllMatchesFrom(_, _)
AllMatchesFrom(q, p) ==
    IF p > NumPatterns THEN << >> ELSE FindIter(p, q, 1) \o AllMatchesFrom(q, p + 1)

\* list.sort(key=start, reverse=True): stable, equal starts keep their order
RECURSIVE SortByStartDesc(_)
SortByStartDesc(ms) ==
    IF ms = << >> THEN << >>
    ELSE LET rest == SortByStartDesc(SubSeq(ms, 1, Len(ms) - 1))
             m    == ms[Len(ms)]
             k    == Cardinality({j \in 1..Len(rest) : rest[j].start >= m.start})
         IN  SubSeq(rest, 1, k) \o <<m>> \o SubSeq(rest, k + 1, Len(rest))

DictSet(d, key, value) == [k \in DOMAIN d \cup {key} |-> IF k = key THEN value ELSE d[k]]
EmptyDict == [k \in {} |-> 0]

\* the loop that applies the sorted matches: filters[filter_key] = value and
\* cleaned_query = cleaned_query[:start] + ' ' + cleaned_query[end:]
RECURSIVE ApplyMatches(_, _, _, _)
ApplyMatches(ms, k, filters, cleaned) ==
    IF k > Len(ms) THEN [filters |-> filters, cleaned |-> cleaned]
    ELSE ApplyMatches(ms, k + 1, DictSet(filters, ms[k].key, ms[k].value),
                      Slice(cleaned, 0, ms[k].start) \o " "
                          \o Slice(cleaned, ms[k].end, Len(cleaned)))

\* _extract_numeric_filters(query) -> (filters, cleaned_query)
ExtractNumericFilters(query) ==
    LET r == ApplyMatches(SortByStartDesc(AllMatchesFrom(query, 1)), 1, EmptyDict, query)
    IN  [filters |-> r.filters, cleaned |-> JoinSplitFrom(r.cleaned, 1, "")]

(***************************************************************************)
(* Query analysis: entity type, person roles, complexity, batch tokens     *)
(***************************************************************************)
\* _detect_entity_type: the three vocabularies, checked repository > company
\* > person; "" stands for None
RepoTerms == {"repository", "repo", "github", "code", "project", "package", "library",
              "framework", "sdk", "cli", "tool", "toolkit", "utility", "plugin",
              "extension", "module", "api"}
CompanyTerms == {"company", "startup", "business", "firm", "venture", "enterprise",
                 "organization", "corp"}
PersonTerms == {"founder", "person", "people", "developer", "engineer", "ceo", "cto",
                "investor", "employee", "team"}
DetectEntityType(query) ==
    LET ql == ToLower(query)
    IN  IF ContainsAny(ql, RepoTerms) THEN "repository"
        ELSE IF ContainsAny(ql, CompanyTerms) THEN "company"
        ELSE IF ContainsAny(ql, PersonTerms) THEN "person"
        ELSE ""

\* _derive_person_roles_from_query: investor vocabulary first; {} stands for None
InvestorTerms == {"investor", "investors", "vc", "venture capital", "venture-capital",
                  "angel", "lead investor", "general partner", "gp", "partner",
                  "principal", "associate"}
FounderTerms == {"founder", "founders", "cofounder", "co-founder", "ceo", "cto", "cpo",
                 "head of"}
DerivePersonRoles(query) ==
    LET q == ToLower(query)
    IN  IF query = "" THEN {}
        ELSE IF ContainsAny(q, InvestorTerms) THEN {"investor"}
        ELSE IF ContainsAny(q, FounderTerms) THEN {"founder"}
        ELSE {}

\* re.search(r"\btop \d+\b", s)
ContainsTopN(s) ==
    \E i \in 1..Len(s) :
        /\ OccursAt(s, "top ", i) /\ WordBoundary(s, i)
        /\ SkipDigits(s, i + 4) > i + 4
        /\ WordBoundary(s, SkipDigits(s, i + 4))
\* re.search(r"\b<prefix>\d{2}\b", s)
ContainsPrefixTwoDigits(s, prefix) ==
    \E i \in 1..Len(s) :
        /\ OccursAt(s, prefix, i) /\ WordBoundary(s, i)
        /\ IsDigit(CharAt(s, i + Len(prefix))) /\ IsDigit(CharAt(s, i + Len(prefix) + 1))
        /\ WordBoundary(s, i + Len(prefix) + 2)

\* _is_complex_query: the point system and its threshold
ComplexityScore(q) ==
    LET ql   == ToLower(q)
        anyWord(ws) == \E w \in ws : ContainsWord(ql, w)
        ents == Cardinality({k \in {"founder", "person", "repo", "repository", "company",
                                    "startup"} : Contains(ql, k)})
    IN    (IF ents >= 2 THEN 2 ELSE 0)
        + (IF anyWord({"and", "or", "not", "without", "except", "between"})
           THEN 2 ELSE 0)
        + (IF \/ Contains(ql, "<") \/ Contains(ql, ">")
              \/ anyWord({"at least", "at most", "over", "under", "more than",
                       "less than", "best", "most"})
              \/ ContainsTopN(ql)
           THEN 2 ELSE 0)
        + (IF anyWord({"who", "that", "which"}) THEN 1 ELSE 0)
        + (IF /\ anyWord({"in", "near", "from"})
              /\ \/ ContainsPrefixTwoDigits(ql, "20")
                 \/ ContainsPrefixTwoDigits(ql, "w")
                 \/ ContainsPrefixTwoDigits(ql, "s")
                 \/ anyWord({"series a", "series b", "series c", "seed"})
           THEN 2 ELSE 0)
        + (IF anyWord({"compare", "rank", "summarize", "recommend", "explain",
                    "why", "how"})
           THEN 2 ELSE 0)
        + (IF CountWordsFrom(q, 1) > 12 THEN 1 ELSE 0)
\* variant: the threshold one point lower
IsComplexQueryFromTwo(q) == ComplexityScore(q) >= 2
IsComplexQuery(q) == ComplexityScore(q) >= 3

\* r"\b([ws])\s*'?\s*(20)?(\d{2})\b" at position i: the two digits of group 3,
\* or "" when the pattern does not match there
SeasonCodeAt(q, i) ==
    IF ~(CharAt(q, i) \in {"w", "s"} /\ WordBoundary(q, i)) THEN ""
    ELSE LET j1 == SkipSpaces(q, i + 1)
             j2 == IF CharAt(q, j1) = "'" THEN j1 + 1 ELSE j1
             j3 == SkipSpaces(q, j2)
             two(j) == IsDigit(CharAt(q, j)) /\ IsDigit(CharAt(q, j + 1))
                           /\ WordBoundary(q, j + 2)
         IN  IF OccursAt(q, "20", j3) /\ two(j3 + 2) THEN SubSeq(q, j3 + 2, j3 + 3)
             ELSE IF two(j3) THEN SubSeq(q, j3, j3 + 1)
             ELSE ""
SeasonName(c) == IF c = "w" THEN "winter" ELSE "summer"

\* r"\b(winter|summer)\s+20(\d{2})\b" at position i: "<season> 20<yy>" or ""
SeasonYearAt(q, i) ==
    LET season == IF OccursAt(q, "winter", i) THEN "winter"
                  ELSE IF OccursAt(q, "summer", i) THEN "summer" ELSE ""
        j == SkipSpaces(q, i + 6)
    IN  IF /\ season # "" /\ WordBoundary(q, i) /\ j > i + 6 /\ OccursAt(q, "20", j)
           /\ IsDigit(CharAt(q, j + 2)) /\ IsDigit(CharAt(q, j + 3))
           /\ WordBoundary(q, j + 4)
        THEN season \o " 20" \o SubSeq(q, j + 2, j + 3)
        ELSE ""

\* r"yc\s+([ws])\s*(\d{2})\b" at position i: "<season> 20<yy>" or ""
YcCodeAt(q, i) ==
    LET j == SkipSpaces(q, i + 2)
        k == SkipSpaces(q, j + 1)
    IN  IF /\ OccursAt(q, "yc", i) /\ j > i + 2 /\ CharAt(q, j) \in {"w", "s"}
           /\ IsDigit(CharAt(q, k)) /\ IsDigit(CharAt(q, k + 1))
           /\ WordBoundary(q, k + 2)
        THEN SeasonName(CharAt(q, j)) \o " 20" \o SubSeq(q, k, k + 1)
        ELSE ""

\* the three batch patterns by number: what pattern p yields at position i
BatchPatternAt(p, q, i) ==
    IF p = 1 THEN SeasonCodeAt(q, i)
    ELSE IF p = 2 THEN SeasonYearAt(q, i)
    ELSE YcCodeAt(q, i)

\* re.search: the leftmost position where pattern p matches, 0 when none
RECURSIVE FirstPosFrom(_, _, _)
FirstPosFrom(p, q, i) ==
    IF i > Len(q) THEN 0
    ELSE IF BatchPatternAt(p, q, i) # "" THEN i
    ELSE FirstPosFrom(p, q, i + 1)

\* _extract_batch_from_query: the set of lower-case batch tokens; {} stands for None
ExtractBatchFromQuery(query) ==
    LET q  == ToLower(query)
        m  == FirstPosFrom(1, q, 1)
        m2 == FirstPosFrom(2, q, 1)
        m3 == FirstPosFrom(3, q, 1)
        t1 == IF m = 0 THEN {}
              ELSE LET yy == SeasonCodeAt(q, m)
                   IN  {SeasonName(CharAt(q, m)) \o " 20" \o yy, "20" \o yy,
                        CharAt(q, m) \o yy}
        t2 == IF m2 = 0 THEN {} ELSE {SeasonYearAt(q, m2)}
        t3 == IF m3 = 0 THEN {} ELSE {YcCodeAt(q, m3)}
    IN  IF query = "" THEN {} ELSE t1 \cup t2 \cup t3

(***************************************************************************)
(* The graph store: a small property graph the queries run against         *)
(***************************************************************************)
\* Optional[int] = None and Optional[List[str]] = None of the signatures; an
\* optional string is "" and an optional non-empty list is {} where the code
\* only ever tests truthiness
NoneInt == 0 - 1
NoneRoles == {"<None>"}
\* scores are kept as integers: 1.0 is ScoreOne, a cosine similarity is given
\* in hundredths
ScoreUnit == 12 * 10
ScoreOne == 100 * ScoreUnit

Node(id, label, name, location, batch, stars, role, roles, emb) ==
    [id |-> id, label |-> label, name |-> name, location |-> location, batch |-> batch,
     stars |-> stars, role |-> role, roles |-> roles, emb |-> emb]

\* nodes in the order a label scan yields them; the Industry hub carries a
\* name but no id property (id "" is NULL)
NodeSeq ==
    << Node("c1", "Company", "Acme AI", "New York, NY", "Winter 2024", NoneInt, "", {}, TRUE),
       Node("c2", "Company", "bolt", "San Francisco, CA", "W24", NoneInt, "", {}, TRUE),
       Node("c3", "Company", "Cobalt", "Boston, MA", "YC Winter 2024", NoneInt, "", {}, TRUE),
       Node("p1", "Person", "Zoe", "", "", NoneInt, "founder", {"founder"}, TRUE),
       Node("p2", "Person", "adam", "", "", NoneInt, "Founder", {}, TRUE),
       Node("p3", "Person", "Bea", "New York", "", NoneInt, "investor", {"investor"}, FALSE),
       Node("p4", "Person", "Carl", "", "", NoneInt, "", {"Founder", "advisor"}, TRUE),
       Node("r1", "Repository", "alpha", "", "", 900, "", {}, TRUE),
       Node("r2", "Repository", "Beta", "", "", 300, "", {}, TRUE),
       Node("r3", "Repository", "gamma", "", "", NoneInt, "", {}, TRUE),
       Node("", "Industry", "Fintech", "", "", NoneInt, "", {}, FALSE) >>
NodeIdx == 1..Len(NodeSeq)

Edge(from, to, type, conf) == [from |-> from, to |-> to, type |-> type, conf |-> conf]
\* relationships between node positions of NodeSeq; conf is the confidence of
\* an ownership relationship in hundredths
Edges ==
    { Edge(4, 1, "FOUNDED", 0), Edge(5, 2, "FOUNDED", 0), Edge(5, 1, "INVESTS_IN", 0),
      Edge(6, 1, "INVESTS_IN", 0), Edge(7, 1, "FOUNDED", 0),
      Edge(1, 8, "OWNS", 95), Edge(2, 8, "LIKELY_OWNS", 80), Edge(3, 9, "LIKELY_OWNS", 80),
      Edge(1, 11, "IN_INDUSTRY", 0), Edge(2, 11, "IN_INDUSTRY", 0) }

\* Location hubs (canonical, aliases) in load order, and Industry aliases
LocationAliases ==
    << [canonical |-> "sf", aliases |-> <<"sf", "san francisco">>],
       [canonical |-> "nyc", aliases |-> <<"nyc", "new york">>],
       [canonical |-> "boston", aliases |-> <<"boston">>] >>
IndustryAliases == << [canonical |-> "fintech", aliases |-> <<"payments">>] >>
SeqToSet(sq) == {sq[i] : i \in 1..Len(sq)}

\* an embedding of a query text, abstracted to the cosine similarity (in
\* hundredths) it has with every stored embedding
Embeddings ==
    << [i \in NodeIdx |-> 100 - 7 * i],
       [i \in NodeIdx |-> 30 + 6 * i],
       [i \in NodeIdx |-> 50],
       [i \in NodeIdx |-> 0 - 10] >>

(***************************************************************************)
(* Location and industry resolution against the alias maps                 *)
(***************************************************************************)
\* _extract_location_from_query: first canonical (load order) with an alias in
\* the query; "" stands for None
RECURSIVE LocationFrom(_, _)
LocationFrom(q, k) ==
    IF k > Len(LocationAliases) THEN ""
    ELSE IF \E a \in SeqToSet(LocationAliases[k].aliases) : Contains(q, a)
         THEN LocationAliases[k].canonical
         ELSE LocationFrom(q, k + 1)
ExtractLocationFromQuery(query) == LocationFrom(ToLower(query), 1)

\* self.location_aliases.get(code, [])
AliasesOf(code) ==
    IF \E k \in 1..Len(LocationAliases) : LocationAliases[k].canonical = code
    THEN SeqToSet(LocationAliases[CHOOSE k \in 1..Len(LocationAliases) :
                                      LocationAliases[k].canonical = code].aliases)
    ELSE {}
\* _location_matches
LocationMatches(code, location_text) ==
    /\ code # "" /\ location_text # ""
    /\ \E a \in AliasesOf(code) : Contains(ToLower(location_text), a)
\* _aliases_for_code; {} stands for None
AliasesForCode(code) == IF code = "" THEN {} ELSE {ToLower(a) : a \in AliasesOf(code)}
\* _derive_exclude_locations; {} stands for None
DeriveExcludeLocations(code) ==
    IF code = "" THEN {}
    ELSE UNION {AliasesForCode(c) : c \in {"nyc", "la", "boston", "london"} \ {code}}

\* _extract_industries_from_query (alias map loaded); {} stands for None
ExtractIndustriesFromQuery(query) ==
    LET q == ToLower(query)
    IN  IF query = "" THEN {}
        ELSE {IndustryAliases[k].canonical : k \in
                 {j \in 1..Len(IndustryAliases) :
                     \/ Contains(q, IndustryAliases[j].canonical)
                     \/ \E a \in SeqToSet(IndustryAliases[j].aliases) : Contains(q, a)}}
\* the expansion of industry filters with their aliases in search
ExpandIndustries(industry_filters) ==
    industry_filters \cup
    UNION {SeqToSet(IndustryAliases[k].aliases) : k \in
              {j \in 1..Len(IndustryAliases) : IndustryAliases[j].canonical \in industry_filters}}

(***************************************************************************)
(* Neo4jStore: vector_search, hybrid_search, find_companies_by_batch,      *)
(* filter_search                                                           *)
(***************************************************************************)
\* str.capitalize()
Capitalize(s) ==
    IF s = "" THEN ""
    ELSE LET c == CharAt(s, 1)
             u == IF IsLower(c)
                  THEN LET i == CHOOSE j \in 1..26 : SubSeq(LowerChars, j, j) = c
                       IN  SubSeq(UpperChars, i, i)
                  ELSE c
         IN  u \o ToLower(Slice(s, 1, Len(s)))

\* a match: id, score, type and the metadata the later steps read (the node's
\* position gives the rest); from/dist/path are the connection object of an
\* expansion result (from = "" when there is none); company is the attached
\* owning company ("" when none)
Match(i, score, from, dist, path, company) ==
    [id |-> NodeSeq[i].id, node |-> i, score |-> score, type |-> NodeSeq[i].label,
     from |-> from, dist |-> dist, path |-> path, company |-> company]

\* ANY(x IN filters WHERE toLower(coalesce(text, '')) CONTAINS x)
AnyContained(filters, text) == \E f \in filters : Contains(ToLower(text), f)
\* the role predicate of the Cypher queries
RoleMatches(n, person_role_filters) ==
    \/ n.role # "" /\ ToLower(n.role) \in person_role_filters
    \/ \E r \in n.roles : ToLower(r) \in person_role_filters
\* the filter predicates shared by vector_search and by the expansion query
PassesFilters(n, location_filters, batch_filters, exclude_location_filters, min_repo_stars, person_role_filters) ==
    /\ location_filters = {} \/ AnyContained(location_filters, n.location)
    /\ batch_filters = {} \/ AnyContained(batch_filters, n.batch)
    /\ exclude_location_filters = {} \/ ~AnyContained(exclude_location_filters, n.location)
    /\ min_repo_stars = NoneInt \/ (n.stars # NoneInt /\ n.stars >= min_repo_stars)
    /\ person_role_filters = NoneRoles \/ RoleMatches(n, person_role_filters)

\* variant: the merged list is left in the order it was built
KeepInsertionOrder(ms) == ms
\* list.sort(key=score, reverse=True) and ORDER BY score DESC: stable
RECURSIVE SortByScoreDesc(_)
SortByScoreDesc(ms) ==
    IF ms = << >> THEN << >>
    ELSE LET rest == SortByScoreDesc(SubSeq(ms, 1, Len(ms) - 1))
             m    == ms[Len(ms)]
             k    == Cardinality({j \in 1..Len(rest) : rest[j].score >= m.score})
         IN  SubSeq(rest, 1, k) \o <<m>> \o SubSeq(rest, k + 1, Len(rest))

\* the first n elements: sq[:n] and LIMIT n
Take(sq, n) == SubSeq(sq, 1, Min(Max(n, 0), Len(sq)))

\* the node positions in idxs that satisfy P, in scan order
RECURSIVE SelectIdx(_, _)
SelectIdx(k, S) ==
    IF k > Len(NodeSeq) THEN << >>
    ELSE (IF k \in S THEN <<k>> ELSE << >>) \o SelectIdx(k + 1, S)

\* vector_search: label and filter predicates, similarity >= min_score, ORDER
\* BY score DESC LIMIT top_k; emb gives the similarities in hundredths
VectorSearch(emb, node_type, top_k, min_score, location_filters, batch_filters, exclude_location_filters, min_repo_stars, person_role_filters) ==
    LET cand == {i \in NodeIdx :
                    /\ node_type = "" \/ NodeSeq[i].label = Capitalize(node_type)
                    /\ NodeSeq[i].emb
                    /\ PassesFilters(NodeSeq[i], location_filters, batch_filters,
                                     exclude_location_filters, min_repo_stars,
                                     person_role_filters)
                    /\ emb[i] * ScoreUnit >= min_score}
        rows == SelectIdx(1, cand)
    IN  Take(SortByScoreDesc([k \in 1..Len(rows) |->
                 Match(rows[k], emb[rows[k]] * ScoreUnit, "", 0, << >>, "")]), top_k)

\* (start)-[*d]-(connected): the ends of the paths of exactly d relationships
\* from position i that repeat no relationship, with the relationship types
RECURSIVE PathEnds(_, _, _, _)
PathEnds(i, used, types, d) ==
    IF d = 0 THEN {<<i, types>>}
    ELSE UNION {PathEnds(IF e.from = i THEN e.to ELSE e.from, used \cup {e},
                         Append(types, e.type), d - 1) :
                   e \in {r \in Edges : r.from = i \/ r.to = i} \ used}

RECURSIVE SetToSeq(_)
SetToSeq(S) ==
    IF S = {} THEN << >>
    ELSE LET x == CHOOSE y \in S : TRUE IN <<x>> \o SetToSeq(S \ {x})

ExpansionLimit == 20
\* the expansion query for one seed: DISTINCT (connected, distance, rel_types)
\* ORDER BY distance LIMIT 20, as <<position, distance, rel_types>>
RECURSIVE ExpansionRowsFrom(_, _, _, _, _, _, _, _, _)
ExpansionRowsFrom(seed, d, graph_depth, node_type, location_filters, batch_filters, exclude_location_filters, min_repo_stars, person_role_filters) ==
    IF d > graph_depth THEN << >>
    ELSE LET ends == {pe \in PathEnds(seed, {}, << >>, d) :
                         LET n == NodeSeq[pe[1]]
                         IN  /\ node_type = "" \/ n.label = Capitalize(node_type)
                             /\ n.id # "" /\ n.id # NodeSeq[seed].id
                             /\ PassesFilters(n, location_filters, batch_filters,
                                              exclude_location_filters, min_repo_stars,
                                              person_role_filters)}
             rows == SetToSeq({<<pe[1], d, pe[2]>> : pe \in ends})
         IN  rows \o ExpansionRowsFrom(seed, d + 1, graph_depth, node_type,
                                       location_filters, batch_filters,
                                       exclude_location_filters, min_repo_stars,
                                       person_role_filters)

\* variant: the distance of an expansion result does not lower its score
CombinedScoreNoDecay(vector_score, distance) ==
    (7 * vector_score) \div 10 + (3 * ScoreOne) \div 10
\* combined_score = vector_score * 0.7 + (1.0 / (distance + 1)) * 0.3
CombinedScore(vector_score, distance) ==
    (7 * vector_score) \div 10 + (3 * ScoreOne) \div (10 * (distance + 1))

SeedCount == 5
\* the loop over one seed's expansion rows: a connected node is appended unless
\* its id is in seen_ids
RECURSIVE ExpandRows(_, _, _, _, _)
ExpandRows(rows, k, seed, acc, seen) ==
    IF k > Len(rows) THEN [expanded |-> acc, seen |-> seen]
    ELSE LET id == NodeSeq[rows[k][1]].id
         IN  IF id \in seen THEN ExpandRows(rows, k + 1, seed, acc, seen)
             ELSE ExpandRows(rows, k + 1, seed,
                             Append(acc, Match(rows[k][1],
                                               CombinedScore(seed.score, rows[k][2]),
                                               seed.id, rows[k][2], rows[k][3], "")),
                             seen \cup {id})

\* the loop over vector_results[:5]: each seed's id joins seen_ids when its
\* turn comes
RECURSIVE ExpandSeeds(_, _, _, _, _, _, _, _, _, _, _)
ExpandSeeds(seeds, k, acc, seen, graph_depth, node_type, location_filters, batch_filters, exclude_location_filters, min_repo_stars, person_role_filters) ==
    IF k > Len(seeds) THEN acc
    ELSE LET rows == Take(ExpansionRowsFrom(seeds[k].node, 1, graph_depth, node_type,
                                            location_filters, batch_filters,
                                            exclude_location_filters, min_repo_stars,
                                            person_role_filters), ExpansionLimit)
             r == ExpandRows(rows, 1, seeds[k], acc, seen \cup {seeds[k].id})
         IN  ExpandSeeds(seeds, k + 1, r.expanded, r.seen, graph_depth, node_type,
                         location_filters, batch_filters, exclude_location_filters,
                         min_repo_stars, person_role_filters)

\* hybrid_search: vector results (2*top_k, min_score 0.0) plus the expansion of
\* the first five, sorted by score, cut to top_k
HybridSearch(emb, node_type, top_k, graph_depth, location_filters, batch_filters, exclude_location_filters, min_repo_stars, person_role_filters) ==
    LET vector_results == VectorSearch(emb, node_type, top_k * 2, 0, location_filters,
                                       batch_filters, exclude_location_filters,
                                       min_repo_stars, person_role_filters)
        expanded_results == ExpandSeeds(Take(vector_results, SeedCount), 1, << >>, {},
                                        graph_depth, node_type, location_filters,
                                        batch_filters, exclude_location_filters,
                                        min_repo_stars, person_role_filters)
    IN  Take(SortByScoreDesc(vector_results \o expanded_results), top_k)

\* variant: a company's batch must contain every token (ALL for ANY)
FindCompaniesByEveryToken(batch_filters, limit) ==
    LET rows == SelectIdx(1, {i \in NodeIdx :
                    /\ NodeSeq[i].label = "Company"
                    /\ \A b \in batch_filters : Contains(ToLower(NodeSeq[i].batch), b)})
    IN  Take([k \in 1..Len(rows) |-> Match(rows[k], (4 * ScoreOne) \div 10, "", 0, << >>, "")],
             limit)
\* find_companies_by_batch: companies whose batch contains a token, LIMIT limit,
\* each with score 0.4
FindCompaniesByBatch(batch_filters, limit) ==
    LET rows == SelectIdx(1, {i \in NodeIdx :
                    /\ NodeSeq[i].label = "Company"
                    /\ batch_filters = {} \/ AnyContained(batch_filters, NodeSeq[i].batch)})
    IN  Take([k \in 1..Len(rows) |-> Match(rows[k], (4 * ScoreOne) \div 10, "", 0, << >>, "")],
             limit)

\* the characters of lower-cased names in code point order
CharRank(c) ==
    LET order == " 0123456789_abcdefghijklmnopqrstuvwxyz"
    IN  IF c = "" THEN 0 ELSE CHOOSE j \in 1..Len(order) : SubSeq(order, j, j) = c
\* string comparison a <= b of ORDER BY
RECURSIVE StrLeqFrom(_, _, _)
StrLeqFrom(a, b, i) ==
    IF i > Len(a) THEN TRUE
    ELSE IF i > Len(b) THEN FALSE
    ELSE IF CharAt(a, i) = CharAt(b, i) THEN StrLeqFrom(a, b, i + 1)
    ELSE CharRank(CharAt(a, i)) < CharRank(CharAt(b, i))

\* ORDER BY toLower(n.name) over a set of node positions (ties in scan order)
RECURSIVE OrderByLowerName(_)
OrderByLowerName(S) ==
    IF S = {} THEN << >>
    ELSE LET i == CHOOSE j \in S : \A k \in S :
                     \/ /\ StrLeqFrom(ToLower(NodeSeq[j].name), ToLower(NodeSeq[k].name), 1)
                        /\ ToLower(NodeSeq[j].name) # ToLower(NodeSeq[k].name)
                     \/ ToLower(NodeSeq[j].name) = ToLower(NodeSeq[k].name) /\ j <= k
         IN  <<i>> \o OrderByLowerName(S \ {i})

\* the companies a node position is related to by relationships of the given
\* types (company -> node when outgoing is FALSE)
RelatedCompanies(i, types, outgoing) ==
    {IF outgoing THEN e.to ELSE e.from : e \in {f \in Edges :
        /\ f.type \in types
        /\ IF outgoing THEN f.from = i ELSE f.to = i
        /\ NodeSeq[IF outgoing THEN f.to ELSE f.from].label = "Company"}}
\* EXISTS { (comp)-[:IN_INDUSTRY]->(i:Industry) WHERE toLower(i.name) IN filters ... }
InIndustry(c, industry_filters) ==
    \E e \in Edges :
        /\ e.from = c /\ e.type = "IN_INDUSTRY" /\ NodeSeq[e.to].label = "Industry"
        /\ \/ ToLower(NodeSeq[e.to].name) \in industry_filters
           \/ \E k \in 1..Len(IndustryAliases) :
                 /\ IndustryAliases[k].canonical = ToLower(NodeSeq[e.to].name)
                 /\ \E a \in SeqToSet(IndustryAliases[k].aliases) :
                       ToLower(a) \in industry_filters

\* the Company branch of filter_search
FilterCompanies(batch_filters, location_filters, industry_filters) ==
    {i \in NodeIdx :
        /\ NodeSeq[i].label = "Company"
        /\ batch_filters = {} \/ AnyContained(batch_filters, NodeSeq[i].batch)
        /\ location_filters = {} \/ AnyContained(location_filters, NodeSeq[i].location)
        /\ industry_filters = {} \/ InIndustry(i, industry_filters)}
\* variant: the companies of both relationships whatever the roles asked for
PersonCompaniesAnyRelationship(i, person_role_filters) ==
    RelatedCompanies(i, {"INVESTS_IN", "FOUNDED"}, TRUE)
\* variant: the FOUNDED companies whatever the roles asked for
PersonCompaniesFoundedOnly(i, person_role_filters) ==
    RelatedCompanies(i, {"FOUNDED"}, TRUE)
\* the companies whose location/batch/industry a person is filtered by
PersonCompanies(i, person_role_filters) ==
    (IF person_role_filters = NoneRoles \/ "investor" \in person_role_filters
     THEN RelatedCompanies(i, {"INVESTS_IN"}, TRUE) ELSE {})
    \cup
    (IF person_role_filters = NoneRoles \/ "founder" \in person_role_filters
     THEN RelatedCompanies(i, {"FOUNDED"}, TRUE) ELSE {})
\* the Person branch of filter_search
FilterPersons(batch_filters, location_filters, industry_filters, person_role_filters) ==
    {i \in NodeIdx :
        /\ NodeSeq[i].label = "Person"
        /\ person_role_filters = NoneRoles \/ RoleMatches(NodeSeq[i], person_role_filters)
        /\ LET companies == PersonCompanies(i, person_role_filters)
           IN  /\ batch_filters = {} \/ \E b \in batch_filters : \E c \in companies :
                                            Contains(ToLower(NodeSeq[c].batch), b)
               /\ location_filters = {} \/ \E l \in location_filters : \E c \in companies :
                                            Contains(ToLower(NodeSeq[c].location), l)
               /\ industry_filters = {} \/ \E c \in companies : InIndustry(c, industry_filters)}
\* the Repository branch of filter_search
FilterRepositories(location_filters, industry_filters, min_repo_stars) ==
    {i \in NodeIdx :
        /\ NodeSeq[i].label = "Repository"
        /\ min_repo_stars = NoneInt
               \/ (NodeSeq[i].stars # NoneInt /\ NodeSeq[i].stars >= min_repo_stars)
        /\ LET companies == RelatedCompanies(i, {"OWNS", "LIKELY_OWNS"}, FALSE)
           IN  /\ location_filters = {} \/ \E l \in location_filters : \E c \in companies :
                                            Contains(ToLower(NodeSeq[c].location), l)
               /\ industry_filters = {} \/ \E c \in companies : InIndustry(c, industry_filters)}

\* filter_search: every node of the branch chosen by node_type that meets the
\* filters, ordered by lower-cased name, score 1.0, no cap
FilterSearch(node_type, batch_filters, location_filters, industry_filters, person_role_filters, min_repo_stars) ==
    LET rows == IF node_type = "" \/ ToLower(node_type) = "company"
                THEN OrderByLowerName(FilterCompanies(batch_filters, location_filters,
                                                      industry_filters))
                ELSE IF ToLower(node_type) = "person"
                THEN OrderByLowerName(FilterPersons(batch_filters, location_filters,
                                                    industry_filters, person_role_filters))
                ELSE IF ToLower(node_type) = "repository"
                THEN OrderByLowerName(FilterRepositories(location_filters, industry_filters,
                                                         min_repo_stars))
                ELSE << >>
    IN  [k \in 1..Len(rows) |-> Match(rows[k], ScoreOne, "", 0, << >>, "")]

(***************************************************************************)
(* GraphRAGService: top-starred shortcut, enrichment, strict location pass *)
(***************************************************************************)
\* ORDER BY r.stars DESC over (repository, owner) rows: stable
RECURSIVE SortByStarsDesc(_)
SortByStarsDesc(rows) ==
    IF rows = << >> THEN << >>
    ELSE LET rest == SortByStarsDesc(SubSeq(rows, 1, Len(rows) - 1))
             m    == rows[Len(rows)]
             k    == Cardinality({j \in 1..Len(rest) :
                         NodeSeq[rest[j][1]].stars >= NodeSeq[m[1]].stars})
         IN  SubSeq(rest, 1, k) \o <<m>> \o SubSeq(rest, k + 1, Len(rest))

\* the rows of MATCH (r:Repository) OPTIONAL MATCH (c:Company)-[rel:OWNS|LIKELY_OWNS]->(r):
\* one per ownership relationship, one with no company for an unowned repository
RECURSIVE OwnerRows(_)
OwnerRows(k) ==
    IF k > Len(NodeSeq) THEN << >>
    ELSE (IF NodeSeq[k].label = "Repository" /\ NodeSeq[k].stars # NoneInt
          THEN LET owners == RelatedCompanies(k, {"OWNS", "LIKELY_OWNS"}, FALSE)
               IN  IF owners = {} THEN << <<k, 0>> >>
                   ELSE SetToSeq({<<k, c>> : c \in owners})
          ELSE << >>) \o OwnerRows(k + 1)

\* variant: the query without its LIMIT
GetTopStarredReposNoLimit(top_k) ==
    LET rows == SortByStarsDesc(OwnerRows(1))
    IN  [k \in 1..Len(rows) |->
            Match(rows[k][1], ScoreOne, "", 0, << >>,
                  IF rows[k][2] = 0 THEN "" ELSE NodeSeq[rows[k][2]].id)]
\* _get_top_starred_repos: the rows ordered by stars, LIMIT top_k, one match
\* per row with score 1.0
GetTopStarredRepos(top_k) ==
    LET rows == Take(SortByStarsDesc(OwnerRows(1)), top_k)
    IN  [k \in 1..Len(rows) |->
            Match(rows[k][1], ScoreOne, "", 0, << >>,
                  IF rows[k][2] = 0 THEN "" ELSE NodeSeq[rows[k][2]].id)]

\* the company _enrich_repository_matches_with_company attaches to a
\* repository: the LIKELY_OWNS owner of highest confidence, "" when none
BestLikelyOwner(i) ==
    LET rels == {e \in Edges : e.to = i /\ e.type = "LIKELY_OWNS"
                                 /\ NodeSeq[e.from].label = "Company"}
    IN  IF rels = {} THEN ""
        ELSE NodeSeq[(CHOOSE e \in rels : \A f \in rels : e.conf >= f.conf).from].id
\* _enrich_repository_matches_with_company
EnrichRepositoryMatches(results) ==
    [k \in 1..Len(results) |->
        IF results[k].type = "Repository" /\ results[k].company = ""
        THEN [results[k] EXCEPT !.company = BestLikelyOwner(results[k].node)]
        ELSE results[k]]

\* the elements of a sequence that satisfy a test, in order
RECURSIVE KeepLocation(_, _, _)
KeepLocation(results, k, location_code) ==
    IF k > Len(results) THEN << >>
    ELSE (IF LocationMatches(location_code, NodeSeq[results[k].node].location)
          THEN <<results[k]>> ELSE << >>) \o KeepLocation(results, k + 1, location_code)
\* the strict location pass of search: matching[:top_k]
StrictLocationPass(results, location_code, top_k) ==
    Take(KeepLocation(results, 1, location_code), top_k)

(***************************************************************************)
(* GraphRAGService._plan_query and the application of a plan               *)

\* _build_visualization_data: a node per match not seen before, and for a
\* match with a connection a stub node for an unseen source and an edge
RECURSIVE BuildVisualizationData(_, _, _, _, _)
BuildVisualizationData(ms, k, nodes, edges, seen_nodes) ==
    IF k > Len(ms) THEN [nodes |-> nodes, edges |-> edges]
    ELSE LET r    == ms[k]
             main == IF r.id \in seen_nodes THEN << >>
                     ELSE << [id |-> r.id, label |-> NodeSeq[r.node].name,
                              type |-> r.type, score |-> r.score] >>
             stub == IF r.from # "" /\ r.from \notin seen_nodes \cup {r.id}
                     THEN << [id |-> r.from,
                              label |-> "Entity " \o Slice(r.from, 0, 8) \o "...",
                              type |-> "Unknown"] >>
                     ELSE << >>
             edge == IF r.from # ""
                     THEN << [from |-> r.from, to |-> r.id,
                              label |-> IF r.path # << >> THEN r.path[Len(r.path)]
                                        ELSE "connected"] >>
                     ELSE << >>
         IN  BuildVisualizationData(ms, k + 1, nodes \o main \o stub, edges \o edge,
                                    seen_nodes \cup {r.id}
                                        \cup (IF r.from # "" THEN {r.from} ELSE {}))

(***************************************************************************)
\* a plan field the planner left out (or gave with the wrong JSON type)
AbsentStr == "<absent>"
Plan(ft, roles, stars, focus) ==
    [filter_type |-> ft, person_roles |-> roles, min_repo_stars |-> stars,
     query_focus |-> focus]

\* the plans the language model is taken to answer with: an empty object, a
\* company plan, a person plan with an empty role list, a repository plan with
\* a star threshold and a focus text
LlmPlans ==
    << Plan(AbsentStr, NoneRoles, NoneInt, ""),
       Plan("company", NoneRoles, NoneInt, ""),
       Plan("person", {}, NoneInt, ""),
       Plan("repository", NoneRoles, 100, "popular repositories") >>

\* the heuristic fallback of _plan_query, used when the call raises or its
\* answer is not a JSON object
HeuristicPlan(query) ==
    LET ql == ToLower(query)
    IN  IF ContainsAny(ql, {"founder", "founders", "people", "person", "ceo", "cto"})
        THEN Plan("person", {"founder"}, NoneInt, query)
        ELSE IF ContainsAny(ql, {"repo", "repository", "github", "code"})
        THEN Plan("repository", NoneRoles, NoneInt, query)
        ELSE Plan("company", NoneRoles, NoneInt, query)

\* how the planner's model call can go: it raises (0), it answers text that is
\* not JSON (-1), it answers JSON that is not an object (-2), or it answers
\* the object LlmPlans[k] (k)
PlannerOutcomes == (0 - 2)..Len(LlmPlans)

\* variant: without the heuristic, a failed planner call leaves an empty plan
PlanQueryResultWithoutFallback(query, outcome) ==
    IF outcome <= 0 THEN Plan(AbsentStr, NoneRoles, NoneInt, "") ELSE LlmPlans[outcome]
\* _plan_query: the model's object when there is one; the exception, the
\* JSONDecodeError and the failed isinstance test all end in the heuristic
PlanQueryResult(query, outcome) ==
    IF outcome <= 0 THEN HeuristicPlan(query) ELSE LlmPlans[outcome]

\* truthiness of the optional parameters
TruthyInt(x) == x # NoneInt /\ x # 0
TruthyRoles(r) == r # NoneRoles /\ r # {}

\* the block of search that takes a plan's fields over into the execution
\* parameters and re-derives person roles when the plan left them empty
ApplyPlan(plan, query, ft, roles, stars, embq) ==
    LET ft1    == IF plan.filter_type # AbsentStr THEN plan.filter_type ELSE ft
        roles1 == IF plan.person_roles # NoneRoles
                  THEN {ToLower(r) : r \in plan.person_roles} ELSE roles
        stars1 == IF plan.min_repo_stars # NoneInt THEN plan.min_repo_stars ELSE stars
        embq1  == IF Strip(plan.query_focus) # "" THEN Strip(plan.query_focus) ELSE embq
        derived == IF ft1 = "person" /\ ~TruthyRoles(roles1)
                   THEN DerivePersonRoles(query) ELSE {}
    IN  [filter_type |-> ft1,
         person_role_filters |-> IF derived # {} THEN derived ELSE roles1,
         min_repo_stars |-> stars1, embedding_query |-> embq1]

(***************************************************************************)
(* GraphRAGService.search as a state machine: one request from its call to *)
(* its return (or to the exception it lets through); every call of an      *)
(* external collaborator is a step                                         *)
(***************************************************************************)
MaxTopK == 3
MaxDepth == 2

\* the query texts requests are drawn from
Queries ==
    { "companies in nyc",
      "show me companies in nyc",
      "similar companies in nyc",
      "AI startups with more than 500 stars",
      "founders in nyc",
      "investors in nyc",
      "people in nyc",
      "top starred repositories",
      "highest starred repositories in nyc",
      "top repositories in nyc w24",
      "best yc w24 companies",
      "payments infrastructure",
      "similar to stripe",
      "how do founders and investors in nyc compare",
      "which repo has the most stars",
      "who are the best founders" }
\* the explicit (filter_type, min_repo_stars, person_role_filters) arguments
Args(ft, stars, roles) == [filter_type |-> ft, min_repo_stars |-> stars,
                           person_role_filters |-> roles]
NoArgs == Args("", NoneInt, NoneRoles)
ArgSets == { NoArgs, Args("repository", 100, NoneRoles), Args("", 0, {}),
             Args("person", NoneInt, {"founder", "investor"}) }

AnalyticTerms == {"why", "how", "explain", "compare", "similar", "rank", "best", "top", "most"}
MaxTerms == {"max", "most", "top", "highest", "best"}
NoInfo == "No relevant information found for your query."

VARIABLES
    pc,                  \* where the request is
    query, top_k, graph_depth, args,     \* the arguments of search
    filter_type, min_repo_stars, person_role_filters,   \* as search rebinds them
    embedding_query, batch_filters, location_code, industry_filters,
    has_filters, is_analytic, used_planner,
    query_embedding,     \* index into Embeddings, 0 before the first embedding
    results, response,
    path,                \* which return statement answers: search_params' shape
    pipeline_empty,      \* "not results" as tested before the batch fallback
    error,               \* the exception search lets through, "" when none
    search_params,       \* the search_params of the returned dict
    plan, plan_outcome,  \* what the last _plan_query call returned, and how its model call went
    embed_calls, planner_calls, hybrid_calls, filter_calls, batch_calls, llm_calls

searchVars == <<pc, query, top_k, graph_depth, args, filter_type, min_repo_stars,
                person_role_filters, embedding_query, batch_filters, location_code,
                industry_filters, has_filters, is_analytic, used_planner, query_embedding,
                results, response, path, pipeline_empty, error, search_params, plan,
                plan_outcome, embed_calls, planner_calls, hybrid_calls, filter_calls,
                batch_calls, llm_calls>>

(***************************************************************************)
(* api/main.py: the in-memory rate limiter.  rate_limit is a plain "def"   *)
(* dependency, so the framework runs every execution of it on a worker     *)
(* thread; the executions share the module-level dict rate_buckets and     *)
(* interleave between any two of their reads and writes of it.             *)
(***************************************************************************)
NumWorkers == 2          \* worker threads running rate_limit
MaxRequests == 4         \* requests over a behaviour
RateLimitRpm == 2        \* settings.rate_limit_rpm
window == 60             \* seconds
MaxClock == 90           \* the last clock reading, in seconds
Keys == {"anon:10.0.0.1", "key-1:10.0.0.1"}

VARIABLES
    clock,          \* time.time()
    heap,           \* the bucket dicts ever created: <<[ts, count], ...>>
    rate_buckets,   \* key -> index of its bucket dict in heap, 0 when absent
    wpc,            \* per worker: where its rate_limit execution is
    wkey, wnow, wbucket, wcount,    \* per worker: key, now, bucket, the loaded count
    requests,       \* executions started so far
    opened,         \* per key: the start times of the windows opened so far
    admitted,       \* per key and window start: the requests admitted in it
    rejected        \* number of 429 answers

rateVars == <<clock, heap, rate_buckets, wpc, wkey, wnow, wbucket, wcount, requests,
              opened, admitted, rejected>>

(***************************************************************************)
(* State of the parts that are exercised on their own: the nodes written   *)
(* by the upserts of Neo4jStore, one operation wrapped by retry_on_failure,*)
(* and the query analyzers applied to a query text.                        *)
(***************************************************************************)
VARIABLES
    db,             \* the nodes the upserts have written, in creation order
    applied,        \* the upsert inputs applied so far
    last_upsert,    \* the last upsert: label, id, whether its input was applied before
    rpc,            \* where the wrapper of retry_on_failure is
    attempt,        \* the loop variable of the wrapper
    outcomes,       \* what each invocation of the wrapped function did in this call
    last_exception, \* the wrapper's last_exception, "" for None
    waited,         \* seconds slept by the wrapper in this call
    retry_result,   \* what the wrapper returned or raised
    retry_calls,    \* calls of the wrapper so far
    analyzed_query, numeric_filters, cleaned_query, batch_tokens,  \* an analyzed text
    similarity,     \* the cosine similarities of the stored embeddings, in hundredths
    similar_to      \* the SIMILAR_TO relationships in the database

otherVars == <<db, applied, last_upsert, rpc, attempt, outcomes, last_exception, waited,
               retry_result, retry_calls, analyzed_query, numeric_filters, cleaned_query,
               batch_tokens, similarity, similar_to>>
vars == <<searchVars, rateVars, otherVars>>

RateInit ==
    /\ clock = 0 /\ heap = << >>
    /\ rate_buckets = [k \in Keys |-> 0]
    /\ wpc = [w \in (1..NumWorkers) |-> "idle"]
    /\ wkey = [w \in (1..NumWorkers) |-> "anon:10.0.0.1"]
    /\ wnow = [w \in (1..NumWorkers) |-> 0]
    /\ wbucket = [w \in (1..NumWorkers) |-> 0]
    /\ wcount = [w \in (1..NumWorkers) |-> 0]
    /\ requests = 0
    /\ opened = [k \in Keys |-> {}]
    /\ admitted = [k \in Keys |-> [t \in 0..MaxClock |-> 0]]
    /\ rejected = 0

\* the window of key k a request made at time t falls into: the latest one
\* opened at or before t that has not expired at t; NoneInt when there is none
WindowOf(k, t) ==
    LET live == {s \in opened[k] : s <= t /\ t - s < window}
    IN  IF live = {} THEN NoneInt ELSE CHOOSE s \in live : \A u \in live : u <= s

\* the bookkeeping of one admission of a request of key k made at time t: it
\* is counted in its window, and opens a window when it falls into none
Admit(k, t) ==
    LET s == IF WindowOf(k, t) = NoneInt THEN t ELSE WindowOf(k, t)
    IN  /\ opened' = [opened EXCEPT ![k] = @ \cup {s}]
        /\ admitted' = [admitted EXCEPT ![k][s] = @ + 1]

\* time passes
Tick ==
    /\ clock + (window \div 2) <= MaxClock
    /\ clock' = clock + (window \div 2)
    /\ UNCHANGED <<heap, rate_buckets, wpc, wkey, wnow, wbucket, wcount, requests,
                   opened, admitted, rejected>>
    /\ UNCHANGED <<searchVars, otherVars>>

\* a worker starts rate_limit: key, now = time.time(), window, limit
RateLimitEnter(w, k) ==
    /\ wpc[w] = "idle" /\ requests < MaxRequests
    /\ requests' = requests + 1
    /\ wkey' = [wkey EXCEPT ![w] = k]
    /\ wnow' = [wnow EXCEPT ![w] = clock]
    /\ wpc' = [wpc EXCEPT ![w] = "get"]
    /\ UNCHANGED <<clock, heap, rate_buckets, wbucket, wcount, opened, admitted, rejected>>
    /\ UNCHANGED <<searchVars, otherVars>>

\* bucket = rate_buckets.get(key), and the test of the window on it
RateLimitGet(w) ==
    /\ wpc[w] = "get"
    /\ LET b == rate_buckets[wkey[w]]
       IN  /\ wbucket' = [wbucket EXCEPT ![w] = b]
           /\ wpc' = [wpc EXCEPT ![w] =
                         IF b = 0 \/ wnow[w] - heap[b].ts >= window
                         THEN "reset" ELSE "check"]
    /\ UNCHANGED <<clock, heap, rate_buckets, wkey, wnow, wcount, requests, opened,
                   admitted, rejected>>
    /\ UNCHANGED <<searchVars, otherVars>>

\* rate_buckets[key] = {'ts': now, 'count': 1}; return True
RateLimitReset(w) ==
    /\ wpc[w] = "reset"
    /\ heap' = Append(heap, [ts |-> wnow[w], count |-> 1])
    /\ rate_buckets' = [rate_buckets EXCEPT ![wkey[w]] = Len(heap) + 1]
    /\ Admit(wkey[w], wnow[w])
    /\ wpc' = [wpc EXCEPT ![w] = "idle"]
    /\ UNCHANGED <<clock, wkey, wnow, wbucket, wcount, requests, rejected>>
    /\ UNCHANGED <<searchVars, otherVars>>

\* if bucket['count'] >= limit: raise HTTPException(429)
RateLimitCheck(w) ==
    /\ wpc[w] = "check"
    /\ IF heap[wbucket[w]].count >= RateLimitRpm
       THEN /\ rejected' = rejected + 1
            /\ wpc' = [wpc EXCEPT ![w] = "idle"]
       ELSE /\ wpc' = [wpc EXCEPT ![w] = "load"]
            /\ UNCHANGED rejected
    /\ UNCHANGED <<clock, heap, rate_buckets, wkey, wnow, wbucket, wcount, requests,
                   opened, admitted>>
    /\ UNCHANGED <<searchVars, otherVars>>

\* bucket['count'] += 1, first half: the read of the count
RateLimitLoad(w) ==
    /\ wpc[w] = "load"
    /\ wcount' = [wcount EXCEPT ![w] = heap[wbucket[w]].count]
    /\ wpc' = [wpc EXCEPT ![w] = "store"]
    /\ UNCHANGED <<clock, heap, rate_buckets, wkey, wnow, wbucket, requests, opened,
                   admitted, rejected>>
    /\ UNCHANGED <<searchVars, otherVars>>

\* bucket['count'] += 1, second half: the write of the sum; return True
RateLimitStore(w) ==
    /\ wpc[w] = "store"
    /\ heap' = [heap EXCEPT ![wbucket[w]].count = wcount[w] + 1]
    /\ Admit(wkey[w], wnow[w])
    /\ wpc' = [wpc EXCEPT ![w] = "idle"]
    /\ UNCHANGED <<clock, rate_buckets, wkey, wnow, wbucket, wcount, requests, rejected>>
    /\ UNCHANGED <<searchVars, otherVars>>

RateNext ==
    \/ Tick
    \/ \E w \in (1..NumWorkers), k \in Keys : RateLimitEnter(w, k)
    \/ \E w \in (1..NumWorkers) : RateLimitGet(w)
    \/ \E w \in (1..NumWorkers) : RateLimitReset(w)
    \/ \E w \in (1..NumWorkers) : RateLimitCheck(w)
    \/ \E w \in (1..NumWorkers) : RateLimitLoad(w)
    \/ \E w \in (1..NumWorkers) : RateLimitStore(w)


SearchInit ==
    /\ pc = "idle"
    /\ query = "" /\ top_k = 1 /\ graph_depth = 1 /\ args = NoArgs
    /\ filter_type = "" /\ min_repo_stars = NoneInt /\ person_role_filters = NoneRoles
    /\ embedding_query = "" /\ batch_filters = {} /\ location_code = ""
    /\ industry_filters = {} /\ has_filters = FALSE /\ is_analytic = FALSE
    /\ used_planner = FALSE /\ query_embedding = 0
    /\ results = << >> /\ response = "" /\ path = "" /\ pipeline_empty = FALSE
    /\ error = ""
    /\ search_params = EmptyDict
    /\ plan = Plan(AbsentStr, NoneRoles, NoneInt, "") /\ plan_outcome = 1
    /\ embed_calls = 0 /\ planner_calls = 0 /\ hybrid_calls = 0 /\ filter_calls = 0
    /\ batch_calls = 0 /\ llm_calls = 0

\* the special-case test: repository query asking for the most-starred
IsTopStarredQuery(q, ft) ==
    /\ ft = "repository"
    /\ ContainsAny(ToLower(q), MaxTerms)
    /\ Contains(ToLower(q), "star")

\* "if not filter_type: detected = _detect_entity_type(query)"
TypeAfterDetection(ft, q) == IF ft = "" THEN DetectEntityType(q) ELSE ft

\* "if filter_type == 'person' and not person_role_filters: derive them"
RolesAfterDetection(ft, roles, q) ==
    LET derived == IF ft = "person" /\ ~TruthyRoles(roles)
                   THEN DerivePersonRoles(q) ELSE {}
    IN  IF derived # {} THEN derived ELSE roles

\* variant: the superlatives of the special case count as analytic terms too
IsAnalyticOrSuperlative(q) == ContainsAny(ToLower(q), AnalyticTerms \cup MaxTerms)
\* is_analytic: the query holds one of the analytic terms
IsAnalytic(q) == ContainsAny(ToLower(q), AnalyticTerms)

\* variant: a star threshold alone is no hard filter
HasFiltersIgnoringStars(bf, lc, inds, roles, stars) ==
    bf # {} \/ lc # "" \/ inds # {} \/ TruthyRoles(roles)
\* has_filters: bool(batch_filters or location_code or industry_filters or
\* person_role_filters or min_repo_stars)
HasFilters(bf, lc, inds, roles, stars) ==
    bf # {} \/ lc # "" \/ inds # {} \/ TruthyRoles(roles) \/ TruthyInt(stars)

\* search up to its first external call: filter extraction, entity type and
\* role detection, and the routing decision (each local is bound once)
Search(q, k, depth, a) ==
    /\ pc = "idle"
    /\ \E nf \in {ExtractNumericFilters(q)}, bf \in {ExtractBatchFromQuery(q)},
          lc \in {ExtractLocationFromQuery(q)}, inds \in {ExtractIndustriesFromQuery(q)},
          ft1 \in {TypeAfterDetection(a.filter_type, q)},
          analytic \in {IsAnalytic(q)} :
       \E stars1 \in {IF "min_star" \in DOMAIN nf.filters /\ ~TruthyInt(a.min_repo_stars)
                      THEN nf.filters["min_star"] ELSE a.min_repo_stars},
          roles1 \in {RolesAfterDetection(ft1, a.person_role_filters, q)},
          \* the second detection of the entity type, after the filter-only return
          ft2 \in {TypeAfterDetection(ft1, q)} :
       \E filters \in {HasFilters(bf, lc, inds, roles1, stars1)},
          roles2 \in {RolesAfterDetection(ft2, roles1, q)} :
           /\ query' = q /\ top_k' = k /\ graph_depth' = depth /\ args' = a
           /\ min_repo_stars' = stars1
           /\ embedding_query' = IF nf.cleaned # "" THEN nf.cleaned ELSE q
           /\ batch_filters' = bf /\ location_code' = lc /\ industry_filters' = inds
           /\ has_filters' = filters /\ is_analytic' = analytic
           /\ IF filters /\ ~analytic
              THEN /\ filter_type' = ft1 /\ person_role_filters' = roles1
                   /\ pc' = "filter"
              ELSE /\ filter_type' = ft2 /\ person_role_filters' = roles2
                   /\ pc' = IF IsComplexQuery(q) THEN "plan"
                            ELSE IF IsTopStarredQuery(q, ft2) THEN "special"
                            ELSE "embed"
    /\ UNCHANGED <<used_planner, plan, plan_outcome, query_embedding, results, response, search_params, path, pipeline_empty,
                   error, embed_calls, planner_calls, hybrid_calls, filter_calls,
                   batch_calls, llm_calls>>
    /\ UNCHANGED <<rateVars, otherVars>>

\* the filter-only path: one filter_search with the expanded filters
FilterOnly ==
    /\ pc = "filter"
    /\ results' = FilterSearch(filter_type, batch_filters, AliasesForCode(location_code),
                               ExpandIndustries(industry_filters),
                               person_role_filters, min_repo_stars)
    /\ filter_calls' = filter_calls + 1
    /\ path' = "filter_only"
    /\ pc' = "respond"
    /\ UNCHANGED <<query, top_k, graph_depth, args, filter_type, min_repo_stars,
                   person_role_filters, embedding_query, batch_filters, location_code,
                   industry_filters, has_filters, is_analytic, used_planner, plan, plan_outcome,
                   query_embedding, response, search_params, pipeline_empty, error, embed_calls, planner_calls,
                   hybrid_calls, batch_calls, llm_calls>>
    /\ UNCHANGED <<rateVars, otherVars>>

\* variant: the up-front planner call is not remembered in used_planner
PlanComplexUnrecorded(outcome) ==
    /\ pc = "plan"
    /\ LET r == ApplyPlan(PlanQueryResult(query, outcome), query, filter_type,
                          person_role_filters, min_repo_stars, embedding_query)
       IN  /\ filter_type' = r.filter_type
           /\ person_role_filters' = r.person_role_filters
           /\ min_repo_stars' = r.min_repo_stars
           /\ embedding_query' = r.embedding_query
           /\ pc' = IF IsTopStarredQuery(query, r.filter_type) THEN "special" ELSE "embed"
    /\ used_planner' = used_planner
    /\ plan' = PlanQueryResult(query, outcome) /\ plan_outcome' = outcome
    /\ planner_calls' = planner_calls + 1
    /\ UNCHANGED <<query, top_k, graph_depth, args, batch_filters, location_code,
                   industry_filters, has_filters, is_analytic, query_embedding, results,
                   response, search_params, path, pipeline_empty, error, embed_calls, hybrid_calls,
                   filter_calls, batch_calls, llm_calls>>
    /\ UNCHANGED <<rateVars, otherVars>>

\* the planner call for a complex query, then the special-case test
PlanComplex(outcome) ==
    /\ pc = "plan"
    /\ LET r == ApplyPlan(PlanQueryResult(query, outcome), query, filter_type,
                          person_role_filters, min_repo_stars, embedding_query)
       IN  /\ filter_type' = r.filter_type
           /\ person_role_filters' = r.person_role_filters
           /\ min_repo_stars' = r.min_repo_stars
           /\ embedding_query' = r.embedding_query
           /\ pc' = IF IsTopStarredQuery(query, r.filter_type) THEN "special" ELSE "embed"
    /\ used_planner' = TRUE
    /\ plan' = PlanQueryResult(query, outcome) /\ plan_outcome' = outcome
    /\ planner_calls' = planner_calls + 1
    /\ UNCHANGED <<query, top_k, graph_depth, args, batch_filters, location_code,
                   industry_filters, has_filters, is_analytic, query_embedding, results,
                   response, search_params, path, pipeline_empty, error, embed_calls, hybrid_calls,
                   filter_calls, batch_calls, llm_calls>>
    /\ UNCHANGED <<rateVars, otherVars>>

\* the special-case path: the most-starred repositories
TopStarred ==
    /\ pc = "special"
    /\ results' = GetTopStarredRepos(top_k)
    /\ path' = "special"
    /\ pc' = "respond"
    /\ UNCHANGED <<query, top_k, graph_depth, args, filter_type, min_repo_stars,
                   person_role_filters, embedding_query, batch_filters, location_code,
                   industry_filters, has_filters, is_analytic, used_planner, plan, plan_outcome,
                   query_embedding, response, search_params, pipeline_empty, error, embed_calls, planner_calls,
                   hybrid_calls, filter_calls, batch_calls, llm_calls>>
    /\ UNCHANGED <<rateVars, otherVars>>

\* _get_query_embedding answers: the embedding is any of Embeddings
EmbedQuery(e) ==
    /\ pc = "embed"
    /\ query_embedding' = e
    /\ embed_calls' = embed_calls + 1
    /\ pc' = "hybrid"
    /\ UNCHANGED <<query, top_k, graph_depth, args, filter_type, min_repo_stars,
                   person_role_filters, embedding_query, batch_filters, location_code,
                   industry_filters, has_filters, is_analytic, used_planner, plan, plan_outcome, results,
                   response, search_params, path, pipeline_empty, error, planner_calls, hybrid_calls,
                   filter_calls, batch_calls, llm_calls>>
    /\ UNCHANGED <<rateVars, otherVars>>

\* _get_query_embedding raises: nothing in search catches it
EmbedFails ==
    /\ pc = "embed"
    /\ embed_calls' = embed_calls + 1
    /\ error' = "embedding"
    /\ pc' = "raised"
    /\ UNCHANGED <<query, top_k, graph_depth, args, filter_type, min_repo_stars,
                   person_role_filters, embedding_query, batch_filters, location_code,
                   industry_filters, has_filters, is_analytic, used_planner, plan, plan_outcome,
                   query_embedding, results, response, search_params, path, pipeline_empty,
                   planner_calls, hybrid_calls, filter_calls, batch_calls, llm_calls>>
    /\ UNCHANGED <<rateVars, otherVars>>

\* variant: an empty hybrid_search result is never escalated to the planner
HybridWithoutEscalation ==
    /\ pc = "hybrid"
    /\ results' = HybridSearch(Embeddings[query_embedding], filter_type,
                               IF location_code # "" THEN top_k * 2 ELSE top_k,
                               graph_depth, AliasesForCode(location_code), batch_filters,
                               DeriveExcludeLocations(location_code), min_repo_stars,
                               person_role_filters)
    /\ hybrid_calls' = hybrid_calls + 1
    /\ path' = "semantic"
    /\ pc' = "post"
    /\ UNCHANGED <<query, top_k, graph_depth, args, filter_type, min_repo_stars,
                   person_role_filters, embedding_query, batch_filters, location_code,
                   industry_filters, has_filters, is_analytic, used_planner, plan, plan_outcome,
                   query_embedding, response, search_params, pipeline_empty, error, embed_calls,
                   planner_calls, filter_calls, batch_calls, llm_calls>>
    /\ UNCHANGED <<rateVars, otherVars>>

\* the hybrid_search call (first, or second after the escalation)
Hybrid ==
    /\ pc = "hybrid"
    /\ results' = HybridSearch(Embeddings[query_embedding], filter_type,
                               IF location_code # "" THEN top_k * 2 ELSE top_k,
                               graph_depth, AliasesForCode(location_code), batch_filters,
                               DeriveExcludeLocations(location_code), min_repo_stars,
                               person_role_filters)
    /\ hybrid_calls' = hybrid_calls + 1
    /\ path' = "semantic"
    /\ pc' = IF results' = << >> /\ ~used_planner THEN "escalate" ELSE "post"
    /\ UNCHANGED <<query, top_k, graph_depth, args, filter_type, min_repo_stars,
                   person_role_filters, embedding_query, batch_filters, location_code,
                   industry_filters, has_filters, is_analytic, used_planner, plan, plan_outcome,
                   query_embedding, response, search_params, pipeline_empty, error, embed_calls,
                   planner_calls, filter_calls, batch_calls, llm_calls>>
    /\ UNCHANGED <<rateVars, otherVars>>

\* the zero-result escalation: the planner call and the planned parameters;
\* the re-embedding and the second hybrid_search follow
Escalate(outcome) ==
    /\ pc = "escalate"
    /\ LET r == ApplyPlan(PlanQueryResult(query, outcome), query, filter_type,
                          person_role_filters, min_repo_stars, embedding_query)
       IN  /\ filter_type' = r.filter_type
           /\ person_role_filters' = r.person_role_filters
           /\ min_repo_stars' = r.min_repo_stars
           /\ embedding_query' = r.embedding_query
    /\ used_planner' = TRUE
    /\ plan' = PlanQueryResult(query, outcome) /\ plan_outcome' = outcome
    /\ planner_calls' = planner_calls + 1
    /\ pc' = "embed"
    /\ UNCHANGED <<query, top_k, graph_depth, args, batch_filters, location_code,
                   industry_filters, has_filters, is_analytic, query_embedding, results,
                   response, search_params, path, pipeline_empty, error, embed_calls, hybrid_calls,
                   filter_calls, batch_calls, llm_calls>>
    /\ UNCHANGED <<rateVars, otherVars>>

\* after retrieval: repository enrichment, the strict location pass, the
\* direct batch fallback
PostProcess ==
    /\ pc = "post"
    /\ LET enriched == IF \E k \in 1..Len(results) : results[k].type = "Repository"
                       THEN EnrichRepositoryMatches(results) ELSE results
           strict   == IF location_code # ""
                       THEN StrictLocationPass(enriched, location_code, top_k)
                       ELSE enriched
           fallback == batch_filters # {} /\ strict = << >>
       IN  /\ pipeline_empty' = (strict = << >>)
           /\ results' = IF fallback THEN FindCompaniesByBatch(batch_filters, top_k)
                         ELSE strict
           /\ batch_calls' = IF fallback THEN batch_calls + 1 ELSE batch_calls
    /\ pc' = "respond"
    /\ UNCHANGED <<query, top_k, graph_depth, args, filter_type, min_repo_stars,
                   person_role_filters, embedding_query, batch_filters, location_code,
                   industry_filters, has_filters, is_analytic, used_planner, plan, plan_outcome,
                   query_embedding, response, search_params, path, error, embed_calls, planner_calls,
                   hybrid_calls, filter_calls, llm_calls>>
    /\ UNCHANGED <<rateVars, otherVars>>

\* the search_params of the three return statements, by the path that answers
SearchParams ==
    IF path = "filter_only"
    THEN [filter_only |-> TRUE, filter_type |-> filter_type,
          applied_filters |-> [location |-> location_code, batch |-> batch_filters,
                               min_repo_stars |-> min_repo_stars,
                               person_roles |-> person_role_filters]]
    ELSE IF path = "special"
    THEN [special_query |-> "top_starred_repos", filter_type |-> "repository"]
    ELSE [graph_depth |-> graph_depth, min_score |-> 70 * ScoreUnit, filter_type |-> filter_type,
          applied_filters |-> [location |-> location_code, batch |-> batch_filters,
                               exclude_locations |-> DeriveExcludeLocations(location_code),
                               min_repo_stars |-> min_repo_stars,
                               person_roles |-> person_role_filters]]

\* _generate_graph_aware_response on an empty result list: the fixed string,
\* no call of the text-generation provider; search returns
RespondEmpty ==
    /\ pc = "respond" /\ results = << >>
    /\ response' = NoInfo
    /\ search_params' = SearchParams
    /\ pc' = "done"
    /\ UNCHANGED <<query, top_k, graph_depth, args, filter_type, min_repo_stars,
                   person_role_filters, embedding_query, batch_filters, location_code,
                   industry_filters, has_filters, is_analytic, used_planner, plan, plan_outcome,
                   query_embedding, results, path, pipeline_empty, error, embed_calls,
                   planner_calls, hybrid_calls, filter_calls, batch_calls, llm_calls>>
    /\ UNCHANGED <<rateVars, otherVars>>

\* the text-generation call answers; search returns its text
Generate ==
    /\ pc = "respond" /\ results # << >>
    /\ llm_calls' = llm_calls + 1
    /\ response' = "generated"
    /\ search_params' = SearchParams
    /\ pc' = "done"
    /\ UNCHANGED <<query, top_k, graph_depth, args, filter_type, min_repo_stars,
                   person_role_filters, embedding_query, batch_filters, location_code,
                   industry_filters, has_filters, is_analytic, used_planner, plan, plan_outcome,
                   query_embedding, results, path, pipeline_empty, error, embed_calls,
                   planner_calls, hybrid_calls, filter_calls, batch_calls>>
    /\ UNCHANGED <<rateVars, otherVars>>

\* the text-generation call raises or times out: _generate_graph_aware_response
\* has no handler and neither has search
GenerateFails ==
    /\ pc = "respond" /\ results # << >>
    /\ llm_calls' = llm_calls + 1
    /\ error' = "generation"
    /\ pc' = "raised"
    /\ UNCHANGED <<query, top_k, graph_depth, args, filter_type, min_repo_stars,
                   person_role_filters, embedding_query, batch_filters, location_code,
                   industry_filters, has_filters, is_analytic, used_planner, plan, plan_outcome,
                   query_embedding, results, response, search_params, path, pipeline_empty,
                   embed_calls, planner_calls, hybrid_calls, filter_calls, batch_calls>>
    /\ UNCHANGED <<rateVars, otherVars>>

(***************************************************************************)
(* Neo4jStore upserts: create_company_with_embedding,                      *)
(* create_person_with_embedding, create_repository_with_embedding, and the *)
(* id the pipeline derives for an item                                     *)
(***************************************************************************)
\* the number of distinct inputs upserted over a behaviour
MaxInputs == 3
\* a NULL property / a None value of a string
Null == "<null>"

\* _generate_id: the item's own id when it has one, else the MD5 digest of
\* "<data_type>_<name>_<source>" (kept as the tagged text it is the digest of)
GenerateId(item, data_type) ==
    IF item.ext_id # Null THEN item.ext_id
    ELSE "md5:" \o data_type \o "_" \o item.name \o "_" \o item.source

\* _sanitize_company_data: description and location stripped; website stripped,
\* freed of a leading '@' and given a scheme; industries stripped, blanks dropped
SanitizeCompanyData(company_data) ==
    LET w0 == Strip(company_data.website)
        w1 == IF OccursAt(w0, "@", 1) THEN Strip(SubSeq(w0, 2, Len(w0))) ELSE w0
        w2 == IF w1 # "" /\ ~(OccursAt(w1, "http://", 1) \/ OccursAt(w1, "https://", 1))
              THEN "https://" \o w1 ELSE w1
        kept == SelectSeq(company_data.industries, LAMBDA x : Strip(x) # "")
    IN  [company_data EXCEPT !.description = Strip(@), !.location = Strip(@),
                             !.website = w2,
                             !.industries = [k \in 1..Len(kept) |-> Strip(kept[k])]]

\* the raw items the upserts are given: kind, external id, and the fields the
\* store methods read (emb 0 is no embedding; website_domain is what the
\* pipeline has derived from website before the call)
IngestItems ==
    LET item(kind, ext_id, name, source, description, location, website, batch, industries, role, roles, company, emb) ==
            [kind |-> kind, ext_id |-> ext_id, name |-> name, source |-> source,
             description |-> description, location |-> location, website |-> website,
             website_domain |-> IF website = "" THEN "" ELSE "acme.com",
             batch |-> batch, industries |-> industries, role |-> role, roles |-> roles,
             company |-> company, emb |-> emb]
    IN  { item("company", Null, "Acme", "yc", " AI tools ", "New York ", "@acme.com", "W24",
               <<"AI", " ">>, "", << >>, "", 1),
          item("company", Null, "Acme", "yc", "", "", "", "", << >>, "", << >>, "", 2),
          item("company", "42", "Bolt", "yc", "", "Boston", "", "", << >>, "", << >>, "", 1),
          item("company", "42", "Bolt Inc", "manual", "Payments", "", "https://acme.com",
               "S23", <<"Fintech">>, "", << >>, "", 2),
          item("person", "p1", "Zoe", "yc", "", "", "", "", << >>, "founder", <<"founder">>,
               "Acme", 1),
          item("person", "p1", Null, "github", "", "NYC", "", "", << >>, "", << >>, "", 0),
          item("person", "p1", "Zoe K", "yc", "", "", "", "W24", << >>, "ceo", <<"ceo">>,
               "Bolt", 2),
          item("repository", "r1", "alpha", "github", "vector database", "", "", "",
               << >>, "", << >>, "", 1),
          item("repository", "r1", "alpha", "github", "", "", "", "", << >>, "", << >>,
               "", 1),
          item("repository", "r2", "beta", "github", "cli", "", "", "", << >>, "", << >>,
               "", 2) }

\* coalesce(n.x, $x)
Coalesce(old, new) == IF old = Null THEN new ELSE old
\* variant: the incoming value is always taken
TakeNew(old, new) == new
\* CASE WHEN n.x IS NULL OR n.x = '' THEN $x ELSE n.x END
FillIfEmpty(old, new) == IF old = Null \/ old = "" THEN new ELSE old

\* variant: ON MATCH also sets source to the source of the call
CreateCompanyOverwritingSource(item) ==
    /\ item.kind = "company" /\ Cardinality(applied \cup {item}) <= MaxInputs
    /\ \E d \in {SanitizeCompanyData(item)}, id \in {GenerateId(item, "company")} :
       \E hit \in {{i \in 1..Len(db) : db[i].label = "Company" /\ db[i].id = id}} :
           /\ db' = IF hit = {}
                    THEN Append(db, [label |-> "Company", id |-> id, name |-> d.name,
                                     description |-> d.description, location |-> d.location,
                                     website |-> d.website,
                                     website_domain |-> d.website_domain, batch |-> d.batch,
                                     industries |-> d.industries, source |-> d.source,
                                     sources |-> <<d.source>>, embedding |-> d.emb,
                                     role |-> "", roles |-> << >>, company |-> ""])
                    ELSE [i \in 1..Len(db) |->
                            IF i \notin hit THEN db[i]
                            ELSE [db[i] EXCEPT
                                    !.name = Coalesce(@, d.name),
                                    !.source = d.source,
                                    !.description = FillIfEmpty(@, d.description),
                                    !.location = FillIfEmpty(@, d.location),
                                    !.website = FillIfEmpty(@, d.website),
                                    !.website_domain = FillIfEmpty(@, d.website_domain),
                                    !.batch = FillIfEmpty(@, d.batch),
                                    !.industries = IF @ = << >> THEN d.industries ELSE @,
                                    !.embedding = IF @ = 0 THEN d.emb ELSE @,
                                    !.sources = IF d.source \in SeqToSet(@) THEN @
                                                ELSE Append(@, d.source)]]
           /\ last_upsert' = [label |-> "Company", id |-> id, again |-> item \in applied]
    /\ applied' = applied \cup {item}
    /\ UNCHANGED <<rpc, attempt, outcomes, last_exception, waited, retry_result,
                   retry_calls, analyzed_query, numeric_filters, cleaned_query,
                   batch_tokens>>
    /\ UNCHANGED <<searchVars, rateVars, similarity, similar_to>>

\* create_company_with_embedding: MERGE on (Company, id); ON CREATE every
\* field is set, ON MATCH only empty fields are filled and a new source is
\* appended to sources
CreateCompanyWithEmbedding(item) ==
    /\ item.kind = "company" /\ Cardinality(applied \cup {item}) <= MaxInputs
    /\ \E d \in {SanitizeCompanyData(item)}, id \in {GenerateId(item, "company")} :
       \E hit \in {{i \in 1..Len(db) : db[i].label = "Company" /\ db[i].id = id}} :
           /\ db' = IF hit = {}
                    THEN Append(db, [label |-> "Company", id |-> id, name |-> d.name,
                                     description |-> d.description, location |-> d.location,
                                     website |-> d.website,
                                     website_domain |-> d.website_domain, batch |-> d.batch,
                                     industries |-> d.industries, source |-> d.source,
                                     sources |-> <<d.source>>, embedding |-> d.emb,
                                     role |-> "", roles |-> << >>, company |-> ""])
                    ELSE [i \in 1..Len(db) |->
                            IF i \notin hit THEN db[i]
                            ELSE [db[i] EXCEPT
                                    !.name = Coalesce(@, d.name),
                                    !.description = FillIfEmpty(@, d.description),
                                    !.location = FillIfEmpty(@, d.location),
                                    !.website = FillIfEmpty(@, d.website),
                                    !.website_domain = FillIfEmpty(@, d.website_domain),
                                    !.batch = FillIfEmpty(@, d.batch),
                                    !.industries = IF @ = << >> THEN d.industries ELSE @,
                                    !.embedding = IF @ = 0 THEN d.emb ELSE @,
                                    !.sources = IF d.source \in SeqToSet(@) THEN @
                                                ELSE Append(@, d.source)]]
           /\ last_upsert' = [label |-> "Company", id |-> id, again |-> item \in applied]
    /\ applied' = applied \cup {item}
    /\ UNCHANGED <<rpc, attempt, outcomes, last_exception, waited, retry_result,
                   retry_calls, analyzed_query, numeric_filters, cleaned_query,
                   batch_tokens>>
    /\ UNCHANGED <<searchVars, rateVars, similarity, similar_to>>

\* create_person_with_embedding: MERGE on (Person, id); ON CREATE every field
\* is set (role None becomes '', an empty roles list NULL), ON MATCH only
\* empty fields are filled
CreatePersonWithEmbedding(item) ==
    /\ item.kind = "person" /\ Cardinality(applied \cup {item}) <= MaxInputs
    /\ \E id \in {item.ext_id} :
       \E hit \in {{i \in 1..Len(db) : db[i].label = "Person" /\ db[i].id = id}} :
           /\ db' = IF hit = {}
                    THEN Append(db, [label |-> "Person", id |-> id, name |-> item.name,
                                     description |-> "", location |-> item.location,
                                     website |-> "", website_domain |-> "",
                                     batch |-> item.batch, industries |-> << >>,
                                     source |-> item.source, sources |-> << >>,
                                     embedding |-> item.emb, role |-> item.role,
                                     roles |-> item.roles, company |-> item.company])
                    ELSE [i \in 1..Len(db) |->
                            IF i \notin hit THEN db[i]
                            ELSE [db[i] EXCEPT
                                    !.name = Coalesce(@, item.name),
                                    !.role = FillIfEmpty(@, item.role),
                                    !.roles = IF @ = << >> THEN item.roles ELSE @,
                                    !.company = FillIfEmpty(@, item.company),
                                    !.source = Coalesce(@, item.source),
                                    !.location = FillIfEmpty(@, item.location),
                                    !.batch = FillIfEmpty(@, item.batch),
                                    !.embedding = IF @ = 0 THEN item.emb ELSE @]]
           /\ last_upsert' = [label |-> "Person", id |-> id, again |-> item \in applied]
    /\ applied' = applied \cup {item}
    /\ UNCHANGED <<rpc, attempt, outcomes, last_exception, waited, retry_result,
                   retry_calls, analyzed_query, numeric_filters, cleaned_query,
                   batch_tokens>>
    /\ UNCHANGED <<searchVars, rateVars, similarity, similar_to>>

\* create_repository_with_embedding: MERGE on (Repository, id), then a plain
\* SET of every field, on a new node and on a matched one alike
CreateRepositoryWithEmbedding(item) ==
    /\ item.kind = "repository" /\ Cardinality(applied \cup {item}) <= MaxInputs
    /\ \E id \in {item.ext_id} :
       \E hit \in {{i \in 1..Len(db) : db[i].label = "Repository" /\ db[i].id = id}} :
           /\ db' = IF hit = {}
                    THEN Append(db, [label |-> "Repository", id |-> id, name |-> item.name,
                                     description |-> item.description, location |-> "",
                                     website |-> "", website_domain |-> "", batch |-> "",
                                     industries |-> << >>, source |-> item.source,
                                     sources |-> << >>, embedding |-> item.emb,
                                     role |-> "", roles |-> << >>, company |-> ""])
                    ELSE [i \in 1..Len(db) |->
                            IF i \notin hit THEN db[i]
                            ELSE [db[i] EXCEPT
                                    !.name = item.name,
                                    !.description = item.description,
                                    !.source = item.source,
                                    !.embedding = item.emb]]
           /\ last_upsert' = [label |-> "Repository", id |-> id, again |-> item \in applied]
    /\ applied' = applied \cup {item}
    /\ UNCHANGED <<rpc, attempt, outcomes, last_exception, waited, retry_result,
                   retry_calls, analyzed_query, numeric_filters, cleaned_query,
                   batch_tokens>>
    /\ UNCHANGED <<searchVars, rateVars, similarity, similar_to>>

IngestNext ==
    \/ \E item \in IngestItems : CreateCompanyWithEmbedding(item)
    \/ \E item \in IngestItems : CreatePersonWithEmbedding(item)
    \/ \E item \in IngestItems : CreateRepositoryWithEmbedding(item)

(***************************************************************************)
(* retry_on_failure(max_retries=3, delay=1.0): the wrapper around          *)
(* vector_search and _verify_connection                                    *)
(***************************************************************************)
max_retries == 3
delay == 1
\* wrapper calls over a behaviour
MaxCalls == 3

\* the wrapper is called: last_exception = None, the loop starts at attempt 0
RetryCall ==
    /\ rpc \in {"idle", "returned", "raised"} /\ retry_calls < MaxCalls
    /\ retry_calls' = retry_calls + 1
    /\ rpc' = "try" /\ attempt' = 0 /\ outcomes' = << >> /\ last_exception' = ""
    /\ waited' = 0 /\ retry_result' = ""
    /\ UNCHANGED <<db, applied, last_upsert, analyzed_query, numeric_filters,
                   cleaned_query, batch_tokens>>
    /\ UNCHANGED <<searchVars, rateVars, similarity, similar_to>>

\* one invocation of the wrapped function inside the try: it returns a value,
\* which the wrapper returns at once, or it raises, which the wrapper records
\* before it decides to sleep
RetryInvoke(ok, x) ==
    /\ rpc = "try"
    /\ outcomes' = Append(outcomes, [ok |-> ok, x |-> x])
    /\ IF ok
       THEN /\ retry_result' = x /\ rpc' = "returned"
            /\ UNCHANGED last_exception
       ELSE /\ last_exception' = x
            /\ rpc' = IF attempt < max_retries - 1 THEN "sleep" ELSE "loop"
            /\ UNCHANGED retry_result
    /\ UNCHANGED <<attempt, waited, retry_calls>>
    /\ UNCHANGED <<db, applied, last_upsert, analyzed_query, numeric_filters,
                   cleaned_query, batch_tokens>>
    /\ UNCHANGED <<searchVars, rateVars, similarity, similar_to>>

\* time.sleep(delay)
RetrySleep ==
    /\ rpc = "sleep"
    /\ waited' = waited + delay
    /\ rpc' = "loop"
    /\ UNCHANGED <<attempt, outcomes, last_exception, retry_result, retry_calls>>
    /\ UNCHANGED <<db, applied, last_upsert, analyzed_query, numeric_filters,
                   cleaned_query, batch_tokens>>
    /\ UNCHANGED <<searchVars, rateVars, similarity, similar_to>>

\* variant: the loop runs over range(max_retries + 1)
RetryLoopOneMore ==
    /\ rpc = "loop"
    /\ IF attempt + 1 < max_retries + 1
       THEN /\ attempt' = attempt + 1 /\ rpc' = "try"
            /\ UNCHANGED retry_result
       ELSE /\ retry_result' = last_exception /\ rpc' = "raised"
            /\ UNCHANGED attempt
    /\ UNCHANGED <<outcomes, last_exception, waited, retry_calls>>
    /\ UNCHANGED <<db, applied, last_upsert, analyzed_query, numeric_filters,
                   cleaned_query, batch_tokens>>
    /\ UNCHANGED <<searchVars, rateVars, similarity, similar_to>>
\* the end of one round of "for attempt in range(max_retries)": the next
\* attempt, or "raise last_exception" after the last one
RetryLoop ==
    /\ rpc = "loop"
    /\ IF attempt + 1 < max_retries
       THEN /\ attempt' = attempt + 1 /\ rpc' = "try"
            /\ UNCHANGED retry_result
       ELSE /\ retry_result' = last_exception /\ rpc' = "raised"
            /\ UNCHANGED attempt
    /\ UNCHANGED <<outcomes, last_exception, waited, retry_calls>>
    /\ UNCHANGED <<db, applied, last_upsert, analyzed_query, numeric_filters,
                   cleaned_query, batch_tokens>>
    /\ UNCHANGED <<searchVars, rateVars, similarity, similar_to>>

RetryNext ==
    \/ RetryCall
    \/ \E x \in {"rows", "no rows"} : RetryInvoke(TRUE, x)
    \/ \E x \in {"ServiceUnavailable", "SessionExpired"} : RetryInvoke(FALSE, x)
    \/ RetrySleep
    \/ RetryLoop

(***************************************************************************)
(* The analyzers _extract_numeric_filters and _extract_batch_from_query    *)
(* applied to a query text, as search applies them first                   *)
(***************************************************************************)
\* query texts built from a lead, a phrase and a tail
AnalyzerQueries ==
    { lead \o phrase \o tail :
        lead \in {"", "repos with ", "AI startups from "},
        phrase \in {"more than 100 stars", ">100 stars", "> 100 stars", "100+ stars",
                    "at least 100 stars", "More than 500 Stars", "at least 500 STARS",
                    "over 7 stars", "no more than 100 stars", "fewer than 50 forks",
                    "more than 100 stars or at least 200 stars",
                    "w24", "W24", "w'24", "w 24", "Winter 2024", "winter 2024", "yc w24",
                    "YC W24", "s23", "Summer 2023", "yc s 23", "2024", "stars"},
        tail \in {"", " in nyc"} }

\* one text is analyzed: numeric_filters, cleaned_query =
\* _extract_numeric_filters(query); batch_filters = _extract_batch_from_query(query)
Analyze ==
    \E q \in AnalyzerQueries :
        /\ analyzed_query = ""
        /\ analyzed_query' = q
        /\ \E r \in {ExtractNumericFilters(q)} :
               numeric_filters' = r.filters /\ cleaned_query' = r.cleaned
        /\ batch_tokens' = ExtractBatchFromQuery(q)
        /\ UNCHANGED <<db, applied, last_upsert, rpc, attempt, outcomes, last_exception,
                       waited, retry_result, retry_calls>>
        /\ UNCHANGED <<searchVars, rateVars, similarity, similar_to>>

(***************************************************************************)
(* The SIMILAR_TO relationships of create_relationships                    *)
(***************************************************************************)
\* top_k and threshold of create_relationships, the threshold in hundredths
topK == 3
threshold == 85

\* the nodes that have an embedding, with their label: each label has its own
\* vector index
SimilarNodes == [co1 |-> "Company", co2 |-> "Company", co3 |-> "Company", co4 |-> "Company", co5 |-> "Company", pe1 |-> "Person", pe2 |-> "Person", re1 |-> "Repository", re2 |-> "Repository"]

\* the score db.index.vector.queryNodes gives node m for the embedding of node
\* n, in hundredths: a node is at 1.0 of itself
IndexScore(s, n, m) == IF n = m THEN 100 ELSE s[{n, m}]

\* the similarities the stored embeddings can have: a symmetric score for
\* every two nodes of one index
Similarities ==
    LET pairs == {{n, m} : n, m \in DOMAIN SimilarNodes} \ {{n} : n \in DOMAIN SimilarNodes}
        indexed == {pr \in pairs : \A n, m \in pr : SimilarNodes[n] = SimilarNodes[m]}
        low == [pr \in indexed |->
                   CASE pr = {"co1", "co2"} -> 80 [] pr = {"co1", "co3"} -> 81
                     [] pr = {"co1", "co4"} -> 82 [] pr = {"co1", "co5"} -> 83
                     [] pr = {"co2", "co3"} -> 70 [] pr = {"co4", "co5"} -> 64
                     [] pr = {"co2", "co4"} -> 60 [] pr = {"co2", "co5"} -> 61
                     [] pr = {"co3", "co4"} -> 62 [] pr = {"co3", "co5"} -> 63
                     [] pr = {"pe1", "pe2"} -> 84 [] OTHER -> 79]
        high == [pr \in indexed |->
                   CASE pr = {"co1", "co2"} -> 96 [] pr = {"co1", "co3"} -> 95
                     [] pr = {"co1", "co4"} -> 94 [] pr = {"co1", "co5"} -> 93
                     [] pr = {"co2", "co3"} -> 92 [] pr = {"co4", "co5"} -> 90
                     [] pr = {"pe1", "pe2"} -> 91 [] pr = {"re1", "re2"} -> 97
                     [] OTHER -> low[pr]]
    IN  {[pr \in indexed |-> IF pr \in up THEN high[pr] ELSE low[pr]] : up \in SUBSET indexed}

\* the relationships one rebuild statement merges for node n: the topK + 1
\* nearest nodes of its index, without n itself and those under the threshold,
\* the topK best of them
SimilarTop(s, n) ==
    LET index == {m \in DOMAIN SimilarNodes : SimilarNodes[m] = SimilarNodes[n]}
        nearest == {m \in index : Cardinality({o \in index : IndexScore(s, n, o) > IndexScore(s, n, m)}) < topK + 1}
        hits == {m \in nearest : m # n /\ IndexScore(s, n, m) >= threshold}
    IN  {m \in hits : Cardinality({o \in hits : IndexScore(s, n, o) > IndexScore(s, n, m)}) < topK}

\* MERGE (n)-[r:SIMILAR_TO]-(other) SET r.score = s for every node of the
\* three labels, on the relationships `existing`: the pattern has no direction,
\* so two nodes share one relationship whichever of them merged it
MergeSimilar(existing, s) ==
    LET merged == UNION {{[ends |-> {n, m}, score |-> IndexScore(s, n, m)] : m \in SimilarTop(s, n)} : n \in DOMAIN SimilarNodes}
    IN  {r \in existing : \A t \in merged : t.ends # r.ends} \cup merged

\* one run of create_relationships over embeddings with the similarities s:
\* every SIMILAR_TO relationship is deleted, then the three statements merge
CreateRelationships(s) ==
    /\ similarity' = s
    /\ similar_to' = MergeSimilar(similar_to \ similar_to, s)
    /\ UNCHANGED <<searchVars, rateVars, db, applied, last_upsert, rpc, attempt, outcomes, last_exception, waited, retry_result, retry_calls, analyzed_query, numeric_filters, cleaned_query, batch_tokens>>

OtherInit ==
    /\ db = << >> /\ applied = {}
    /\ last_upsert = [label |-> "", id |-> "", again |-> FALSE]
    /\ rpc = "idle" /\ attempt = 0 /\ outcomes = << >> /\ last_exception = ""
    /\ waited = 0 /\ retry_result = "" /\ retry_calls = 0
    /\ analyzed_query = "" /\ numeric_filters = EmptyDict /\ cleaned_query = ""
    /\ batch_tokens = {}
    /\ similarity = << >> /\ similar_to = {}

Init == SearchInit /\ RateInit /\ OtherInit

Next ==
    \/ \E q \in Queries, k \in 1..MaxTopK, depth \in 1..MaxDepth, a \in ArgSets :
           Search(q, k, depth, a)
    \/ FilterOnly
    \/ \E o \in PlannerOutcomes : PlanComplex(o)
    \/ TopStarred
    \/ \E e \in 1..Len(Embeddings) : EmbedQuery(e)
    \/ EmbedFails
    \/ Hybrid
    \/ \E o \in PlannerOutcomes : Escalate(o)
    \/ PostProcess
    \/ RespondEmpty
    \/ Generate
    \/ GenerateFails

Spec == Init /\ [][Next]_vars

\* the rate limiter on its own
SpecRateLimit == Init /\ [][RateNext]_vars
\* the upserts on their own
SpecIngest == Init /\ [][IngestNext]_vars
\* one wrapped store operation on its own
SpecRetry == Init /\ [][RetryNext]_vars
\* the analyzers on their own
SpecAnalyze == Init /\ [][Analyze]_vars
\* the rebuild of the SIMILAR_TO relationships on its own
SpecSimilar == Init /\ [][\E s \in Similarities : CreateRelationships(s)]_vars

(***************************************************************************)
(* The properties                                                          *)
(***************************************************************************)
\* search has returned its response object
Returned == pc = "done"
\* search holds a result list: hybrid_search's, filter_search's, the special
\* path's, or the final one
HoldsResults == pc \in {"escalate", "post", "respond", "done", "raised"}
NoDuplicateIds(ms) ==
    \A i, j \in 1..Len(ms) : i < j => ms[i].id # ms[j].id

\* C1: no list returned by hybrid_search and no matches list returned by
\* search holds two entries with the same id.
C1_DedupInvariant == HoldsResults => NoDuplicateIds(results)

\* the routing decision has just been taken: no store or provider call yet,
\* the detected filters are still as detected
JustRouted ==
    /\ pc \in {"filter", "plan", "special", "embed"}
    /\ embed_calls = 0 /\ planner_calls = 0 /\ hybrid_calls = 0 /\ filter_calls = 0
\* a hard filter as the claim lists them: batch tokens, a location code, an
\* industry, a person role, a star threshold (an empty role list and a
\* threshold of zero are no filter)
C2_HardFilterDetected ==
    \/ batch_filters # {}
    \/ location_code # ""
    \/ industry_filters # {}
    \/ (person_role_filters # NoneRoles /\ person_role_filters # {})
    \/ min_repo_stars > 0
C2_AnalyticTermInQuery ==
    \E t \in {"why", "how", "explain", "compare", "similar", "rank", "best", "top", "most"} :
        Contains(ToLower(query), t)

\* C2: whenever search detects a hard filter and no analytic term, it goes to
\* the filter-only path: filter_search is called exactly once, the response
\* has filter_only = true, and no embedding, planner or hybrid_search call is
\* ever made.
C2_FilterOnlyRouting ==
    /\ JustRouted => /\ has_filters = C2_HardFilterDetected
                     /\ is_analytic = C2_AnalyticTermInQuery
    /\ (pc # "idle" /\ has_filters /\ ~is_analytic) =>
          /\ pc \in {"filter", "respond", "done", "raised"}
          /\ embed_calls = 0 /\ planner_calls = 0 /\ hybrid_calls = 0
          /\ filter_calls = IF pc = "filter" THEN 0 ELSE 1
          /\ Returned => path = "filter_only"
C2_Witness ==
    /\ Returned /\ query = "companies in nyc" /\ args = NoArgs
    /\ path = "filter_only" /\ filter_calls = 1 /\ results # << >>

ScenarioA == query = "AI startups with more than 500 stars" /\ args = NoArgs
\* C3 as stated: scenario A derives min_repo_stars = 500 and is answered on
\* the semantic path (an embedding call and a hybrid_search call), not on the
\* filter-only path.
C3_ScenarioA_Semantic ==
    (ScenarioA /\ Returned) =>
        /\ min_repo_stars = 500
        /\ path = "semantic" /\ embed_calls >= 1 /\ hybrid_calls >= 1
\* C3 amended: scenario A derives min_repo_stars = 500 and, the query holding
\* no analytic term, is answered on the filter-only path: one filter_search
\* call for companies with min_repo_stars = 500, no embedding call and no
\* hybrid_search call.
C3_ScenarioA_FilterOnly ==
    (ScenarioA /\ pc # "idle") =>
        /\ min_repo_stars = 500 /\ filter_type = "company"
        /\ pc \in {"filter", "respond", "done", "raised"}
        /\ embed_calls = 0 /\ hybrid_calls = 0 /\ planner_calls = 0
        /\ filter_calls = IF pc = "filter" THEN 0 ELSE 1
        /\ Returned => path = "filter_only"
C3_Witness ==
    /\ ScenarioA /\ Returned /\ path = "filter_only" /\ min_repo_stars = 500
    /\ filter_calls = 1

\* C4: on the semantic path with a location code detected, every match of
\* the returned response has a location that contains an alias of the code,
\* and there are at most top_k matches.
C4_LocationStrictPass ==
    (Returned /\ path = "semantic" /\ location_code # "") =>
        /\ Len(results) <= top_k
        /\ \A k \in 1..Len(results) :
              \E a \in AliasesOf(location_code) :
                  Contains(ToLower(NodeSeq[results[k].node].location), a)

\* C5: a failure of the text-generation call is never propagated: search
\* still returns, with the fallback string as its response.
C5_SummaryBestEffort == error # "generation"

\* C6: a failure of the embedding call is propagated only for a query with
\* no hard filter at all; with a filter detected the query is answered on the
\* filter-only path.
C6_EmbeddingFailureDegrades == (error = "embedding") => ~has_filters

\* some worker is inside rate_limit for key k
InFlight(k) == \E w \in (1..NumWorkers) : wpc[w] # "idle" /\ wkey[w] = k
\* C7: in every window of every key at most rate_limit_rpm requests are
\* admitted, and the count of the key's bucket is the number of requests
\* admitted in its window, under every interleaving of rate_limit executions.
C7_RateLimitAtomic ==
    \A k \in Keys :
        /\ \A s \in opened[k] : admitted[k][s] <= RateLimitRpm
        /\ (rate_buckets[k] # 0 /\ ~InFlight(k)) =>
              heap[rate_buckets[k]].count =
                 admitted[k][WindowOf(k, heap[rate_buckets[k]].ts)]

\* the companies whose batch string contains one of the detected tokens
C8_BatchCompanies ==
    {i \in NodeIdx : /\ NodeSeq[i].label = "Company"
                     /\ \E b \in batch_filters : Contains(ToLower(NodeSeq[i].batch), b)}
\* C8: when batch tokens were detected and the semantic pipeline leaves no
\* result, search asks find_companies_by_batch once and returns its answer:
\* companies of a matching batch only, Min(top_k, their number) of them, so a
\* non-empty list whenever one exists.
C8_BatchFallback ==
    (pc \in {"respond", "done"} /\ path = "semantic" /\ batch_filters # {}
        /\ pipeline_empty) =>
        /\ batch_calls = 1
        /\ \A k \in 1..Len(results) : results[k].node \in C8_BatchCompanies
        /\ NoDuplicateIds(results)
        /\ Len(results) = Min(top_k, Cardinality(C8_BatchCompanies))
        /\ C8_BatchCompanies # {} => results # << >>
C8_Witness ==
    /\ Returned /\ path = "semantic" /\ batch_filters # {} /\ pipeline_empty
    /\ batch_calls = 1 /\ Len(results) = 2 /\ hybrid_calls = 2

\* the query asks for the most-starred: 'star' and one of the superlatives
C9_AsksTopStarred ==
    /\ Contains(ToLower(query), "star")
    /\ \E t \in {"max", "most", "top", "highest", "best"} : Contains(ToLower(query), t)
\* the entity type in force when retrieval starts is repository
C9_RepositoryQuery ==
    /\ pc \notin {"idle", "plan"} /\ hybrid_calls = 0
    /\ filter_type = "repository"
C9_StarsNonIncreasing ==
    \A k \in 1..(Len(results) - 1) :
        NodeSeq[results[k].node].stars >= NodeSeq[results[k + 1].node].stars
\* C9 as stated: a repository query asking for the most-starred is answered
\* on the special path whatever filters are detected or supplied: no
\* embedding, no hybrid_search, at most top_k repositories by stars.
C9_TopStarredAlways ==
    (C9_RepositoryQuery /\ C9_AsksTopStarred /\ Returned) =>
        /\ path = "special" /\ embed_calls = 0 /\ hybrid_calls = 0
        /\ Len(results) <= top_k /\ C9_StarsNonIncreasing
\* C9 amended: such a query never causes an embedding or hybrid_search call;
\* it is answered on the special path (at most top_k repositories in
\* non-increasing order of stars) unless a hard filter is detected or
\* supplied and the query holds no analytic term, in which case the
\* filter-only path answers it.
C9_TopStarredUnlessFilterOnly ==
    (C9_RepositoryQuery /\ C9_AsksTopStarred) =>
        /\ embed_calls = 0 /\ hybrid_calls = 0
        /\ IF has_filters /\ ~is_analytic
           THEN /\ pc \in {"filter", "respond", "done", "raised"}
                /\ Returned => path = "filter_only"
           ELSE /\ pc \in {"special", "respond", "done", "raised"}
                /\ pc # "special" =>
                      /\ path = "special"
                      /\ \A k \in 1..Len(results) : results[k].type = "Repository"
                      /\ Len(results) <= top_k /\ C9_StarsNonIncreasing
C9_Witness ==
    /\ Returned /\ C9_AsksTopStarred /\ filter_type = "repository" /\ path = "special"
    /\ top_k = 2 /\ Len(results) = 2 /\ used_planner /\ has_filters

ScenarioB == query = "founders in nyc" /\ args = NoArgs
\* the persons of role founder with a FOUNDED company located in nyc
C10_NycFounders ==
    {i \in NodeIdx :
        /\ NodeSeq[i].label = "Person"
        /\ \/ ToLower(NodeSeq[i].role) = "founder"
           \/ \E r \in NodeSeq[i].roles : ToLower(r) = "founder"
        /\ \E e \in Edges :
              /\ e.from = i /\ e.type = "FOUNDED" /\ NodeSeq[e.to].label = "Company"
              /\ \E a \in {"nyc", "new york"} : Contains(ToLower(NodeSeq[e.to].location), a)}
\* C10: scenario B resolves to person / [founder] / nyc, takes the filter-only
\* path and returns exactly the founders with a FOUNDED company in nyc, each
\* once, all of them whatever top_k, ordered by lower-cased name.
C10_ScenarioB ==
    (ScenarioB /\ pc # "idle") =>
        /\ filter_type = "person" /\ person_role_filters = {"founder"}
        /\ location_code = "nyc"
        /\ pc \in {"filter", "respond", "done", "raised"}
        /\ embed_calls = 0 /\ hybrid_calls = 0 /\ planner_calls = 0
        /\ pc # "filter" =>
              /\ path = "filter_only" /\ filter_calls = 1
              /\ {results[k].node : k \in 1..Len(results)} = C10_NycFounders
              /\ Len(results) = Cardinality(C10_NycFounders)
              /\ \A k \in 1..(Len(results) - 1) :
                    StrLeqFrom(ToLower(NodeSeq[results[k].node].name),
                               ToLower(NodeSeq[results[k + 1].node].name), 1)
C10_Witness ==
    /\ ScenarioB /\ Returned /\ path = "filter_only" /\ top_k = 1 /\ Len(results) = 2

\* C13: every response search returns carries search_params.applied_filters,
\* and that object names every filter the retrieval of its path was given
\* (location, batch, industry, star threshold, person roles, excluded
\* locations) with the value used.
C13_AppliedFiltersEcho ==
    Returned =>
        /\ "applied_filters" \in DOMAIN search_params
        /\ LET af == search_params.applied_filters
               names == DOMAIN af
           IN  /\ (path # "special" /\ location_code # "") =>
                      ("location" \in names /\ af.location = location_code)
               /\ (path # "special" /\ batch_filters # {}) =>
                      ("batch" \in names /\ af.batch = batch_filters)
               /\ (path = "filter_only" /\ industry_filters # {}) =>
                      \E n \in names \cap {"industry", "industries"} :
                          af[n] \in {industry_filters, ExpandIndustries(industry_filters)}
               /\ (path # "special" /\ min_repo_stars # NoneInt) =>
                      ("min_repo_stars" \in names /\ af.min_repo_stars = min_repo_stars)
               /\ (path # "special" /\ person_role_filters # NoneRoles) =>
                      ("person_roles" \in names /\ af.person_roles = person_role_filters)
               /\ (path = "semantic" /\ location_code # "") =>
                      /\ "exclude_locations" \in names
                      /\ af.exclude_locations = DeriveExcludeLocations(location_code)

\* C16: in every list hybrid_search returns and in every matches list search
\* holds or returns (after enrichment, the strict location pass and the batch
\* fallback) the scores are non-increasing.
C16_ScoreOrdering ==
    HoldsResults =>
        \A i \in 1..(Len(results) - 1) : results[i].score >= results[i + 1].score
C16_Witness ==
    /\ Returned /\ path = "semantic" /\ Len(results) >= 2
    /\ results[1].score > results[Len(results)].score
    /\ \E k \in 1..Len(results) : results[k].from # ""

\* the vector score of the seed an expansion result was reached from
C17_SeedScore(id) ==
    Embeddings[query_embedding][CHOOSE i \in NodeIdx : NodeSeq[i].id = id] * ScoreUnit
\* C17: every expansion result of hybrid_search, found d >= 1 hops from a seed
\* of vector score s, has score 0.7*s + 0.3/(d+1), which is strictly below
\* 0.7*s + 0.3 (scores scaled by ScoreOne, d up to graph_depth).
C17_ExpansionScoreBound ==
    HoldsResults =>
        \A k \in 1..Len(results) :
            results[k].from # "" =>
                LET s == C17_SeedScore(results[k].from)
                    d == results[k].dist
                IN  /\ d >= 1 /\ d <= graph_depth
                    /\ 10 * (d + 1) * results[k].score = 7 * (d + 1) * s + 3 * ScoreOne
                    /\ 10 * results[k].score < 7 * s + 3 * ScoreOne
C17_Witness ==
    /\ pc = "post" /\ graph_depth = 2
    /\ \E k \in 1..Len(results) : results[k].from # "" /\ results[k].dist = 2

\* the entity type the heuristic plan picks by keyword
C18_KeywordType ==
    IF \E t \in {"founder", "founders", "people", "person", "ceo", "cto"} :
           Contains(ToLower(query), t)
    THEN "person"
    ELSE IF \E t \in {"repo", "repository", "github", "code"} : Contains(ToLower(query), t)
    THEN "repository"
    ELSE "company"
\* C18: when the planner's model call raises, or answers text that is not
\* JSON, or JSON that is not an object, _plan_query returns the heuristic plan
\* (entity type by keyword, query_focus = the query) and search goes on with
\* it: the planner never makes search raise.
C18_PlannerFallback ==
    (planner_calls > 0 /\ plan_outcome <= 0) =>
        /\ plan.filter_type = C18_KeywordType /\ plan.query_focus = query
        /\ error # "planner"
        /\ pc \in {"special", "embed"} =>
              (filter_type = C18_KeywordType /\ embedding_query = query)
C18_Witness ==
    /\ Returned /\ planner_calls = 1 /\ plan_outcome = 0 - 2 /\ path = "semantic"
    /\ results # << >>

\* the planner retry ran: a second embedding and a second hybrid_search
C20_RetryRan == planner_calls = 1 /\ embed_calls = 2 /\ hybrid_calls = 2
\* the planner had already run for this request before the first hybrid_search
C20_PlannedBefore ==
    IsComplexQuery(query) /\ planner_calls = 1 /\ embed_calls = 1 /\ hybrid_calls = 1
\* the batch-direct fallback is the last retrieval step, taken exactly when
\* the pipeline is left empty and batch tokens were detected; an empty final
\* list is answered with the fixed string, without a text-generation call and
\* without an exception
C20_FallbackAndEmptyAnswer ==
    /\ batch_calls > 0 => pc \in {"respond", "done", "raised"}
    /\ (pc \in {"respond", "done"} /\ path = "semantic") =>
          batch_calls = IF pipeline_empty /\ batch_filters # {} THEN 1 ELSE 0
    /\ (pc = "raised" /\ error = "generation") => results # << >>
    /\ (Returned /\ results = << >>) =>
          (response = NoInfo /\ llm_calls = 0 /\ error = "")
\* C20 as stated: whenever hybrid search yields nothing, the planner retry (one
\* re-embedding, one more hybrid_search) runs before the batch-direct fallback
\* and the return; an all-empty outcome is a valid empty response.
C20_EscalationAlways ==
    /\ (pc = "post" /\ results = << >>) => C20_RetryRan
    /\ C20_FallbackAndEmptyAnswer
\* C20 amended: the same, except that no retry is made when the planner has
\* already run for the request (a complex query).
C20_EscalationUnlessPlanned ==
    /\ (pc = "post" /\ results = << >>) => (C20_RetryRan \/ C20_PlannedBefore)
    /\ C20_FallbackAndEmptyAnswer
C20_Witness ==
    /\ Returned /\ path = "semantic" /\ C20_RetryRan /\ batch_calls = 0
    /\ results = << >> /\ response = NoInfo


\* the text fields of a node that hold a value
C11_Populated(node, fields) == {f \in fields : node[f] \notin {Null, ""}}
\* C11: once create_company_with_embedding has stored a company, applying it
\* again with an input already applied leaves exactly one Company node with
\* that id, creates no node, and changes no field that held a value (name,
\* description, location, website, website_domain, batch, industries,
\* embedding, source, sources).
C11_CompanyUpsertIdempotent ==
    [][ (last_upsert'.label = "Company" /\ last_upsert'.again) =>
            /\ Len(db') = Len(db)
            /\ Cardinality({i \in 1..Len(db') : /\ db'[i].label = "Company"
                                                /\ db'[i].id = last_upsert'.id}) = 1
            /\ \A i \in 1..Len(db) :
                  (db[i].label = "Company" /\ db[i].id = last_upsert'.id) =>
                      /\ \A f \in C11_Populated(db[i], {"name", "description", "location",
                                                        "website", "website_domain",
                                                        "batch", "source"}) :
                             db'[i][f] = db[i][f]
                      /\ db[i].industries # << >> => db'[i].industries = db[i].industries
                      /\ db[i].sources # << >> => db'[i].sources = db[i].sources
                      /\ db[i].embedding # 0 => db'[i].embedding = db[i].embedding ]_vars
C11_Witness ==
    /\ last_upsert.label = "Company" /\ last_upsert.again
    /\ Cardinality({x \in applied : x.kind = "company"}) >= 2
    /\ \E i \in 1..Len(db) : db[i].id = last_upsert.id /\ Len(db[i].sources) = 2

\* C12: no upsert of a person or of a repository replaces a field of an
\* existing Person or Repository node that holds a value (by a blank or by
\* another value); an upsert only fills fields that are still empty.
C12_NonDestructiveMerge ==
    [][ \A i \in 1..Len(db) :
            db[i].label \in {"Person", "Repository"} =>
                /\ \A f \in C11_Populated(db[i], {"name", "description", "location", "batch",
                                                  "source", "role", "company"}) :
                       db'[i][f] = db[i][f]
                /\ db[i].roles # << >> => db'[i].roles = db[i].roles
                /\ db[i].embedding # 0 => db'[i].embedding = db[i].embedding ]_vars

\* the query holds one of the given phrases, whatever its case
C14_Holds(phrases) == \E ph \in phrases : Contains(ToLower(analyzed_query), ph)
\* C14: for a query holding a winter-2024 batch pattern in any supported form
\* the extracted tokens include "winter 2024", "2024" and "w24"; likewise
\* season+year, year and compact code for summer 2023.
C14_BatchTokens ==
    /\ C14_Holds({"w24", "w'24", "w 24", "winter 2024", "yc w24"}) =>
           {"winter 2024", "2024", "w24"} \subseteq batch_tokens
    /\ C14_Holds({"s23", "summer 2023", "yc s 23"}) =>
           {"summer 2023", "2023", "s23"} \subseteq batch_tokens

\* C15: for a query holding "more than N stars", ">N stars", "N+ stars" or
\* "at least N stars", the extracted filters have min_star = N and the
\* cleaned query no longer holds the phrase.
C15_MinStarExtracted ==
    \A n \in {<<"7", 7>>, <<"100", 100>>, <<"200", 200>>, <<"500", 500>>} :
        \A ph \in {"more than " \o n[1] \o " stars", ">" \o n[1] \o " stars",
                   n[1] \o "+ stars", "at least " \o n[1] \o " stars"} :
            Contains(ToLower(analyzed_query), ph) =>
                /\ "min_star" \in DOMAIN numeric_filters
                /\ numeric_filters["min_star"] = n[2]
                /\ ~Contains(ToLower(cleaned_query), ph)

\* C19: an operation wrapped by retry_on_failure(max_retries=3, delay=1.0) is
\* invoked at most 3 times per call; no invocation follows a successful one,
\* whose value is returned; one second is waited after each failed attempt
\* but the last; after 3 failures the last exception is raised.
C19_BoundedRetry ==
    LET n == Len(outcomes)
    IN  /\ n <= 3
        /\ \A k \in 1..(n - 1) : ~outcomes[k].ok
        /\ waited \in {n - 1, n} /\ waited <= 2
        /\ rpc = "try" => waited = n
        /\ rpc = "returned" =>
               (outcomes[n].ok /\ retry_result = outcomes[n].x /\ waited = n - 1)
        /\ rpc = "raised" =>
               /\ n = 3 /\ \A k \in 1..3 : ~outcomes[k].ok
               /\ retry_result = outcomes[3].x /\ waited = 2
C19_Witness ==
    /\ rpc = "raised" /\ Len(outcomes) = 3 /\ waited = 2
    /\ outcomes[2].x # outcomes[3].x /\ retry_result = outcomes[3].x

\* the query asks to be shown something and holds none of the analytic verbs
\* as a word
C21_ShowMeNoAnalyticVerb ==
    /\ OccursAt(ToLower(query), "show me ", 1)
    /\ \A t \in {"why", "how", "explain", "compare", "similar", "rank", "best", "top",
                 "most"} : ~ContainsWord(ToLower(query), t)
\* C21: a "show me X in Y" query in which a hard filter is detected and which
\* holds no analytic verb is routed to filter-only retrieval: search calls
\* filter_search and makes no embedding call.
C21_ShowMeFilterOnly ==
    (pc \notin {"idle", "filter"} /\ C21_ShowMeNoAnalyticVerb /\ has_filters) =>
        (filter_calls = 1 /\ embed_calls = 0)

\* the request in progress carries exactly one hard filter (batch tokens, a
\* location code, an industry, person roles, a star threshold) and its query
\* scores below the complexity threshold
C22_SimpleSingleFilter ==
    /\ pc # "idle"
    /\ Cardinality({f \in {"batch", "location", "industry", "roles", "stars"} :
                       \/ f = "batch" /\ batch_filters # {}
                       \/ f = "location" /\ location_code # ""
                       \/ f = "industry" /\ industry_filters # {}
                       \/ f = "roles" /\ TruthyRoles(person_role_filters)
                       \/ f = "stars" /\ TruthyInt(min_repo_stars)}) = 1
    /\ ComplexityScore(query) < 3
\* C22 as stated: no step of a simple single-filter request calls the
\* planner, whatever the store returns.
C22_NeverPlans ==
    [][C22_SimpleSingleFilter => planner_calls' = planner_calls]_vars
\* C22: a simple single-filter request never calls the planner up front; its
\* only planner call is the zero-result escalation, after the one
\* hybrid_search call returned nothing.
C22_PlansOnlyOnZeroResults ==
    [][(C22_SimpleSingleFilter /\ planner_calls' # planner_calls) =>
           /\ pc = "escalate" /\ results = << >> /\ hybrid_calls = 1
           /\ planner_calls = 0 /\ planner_calls' = 1]_vars
C22_Witness ==
    /\ Returned /\ C22_SimpleSingleFilter /\ path = "semantic"
    /\ planner_calls = 0 /\ hybrid_calls = 1 /\ results # << >>

\* the text q with every character inside a matched span replaced by a space
RECURSIVE C23_WithoutSpans(_, _, _)
C23_WithoutSpans(q, ms, i) ==
    IF i > Len(q) THEN ""
    ELSE (IF \E k \in 1..Len(ms) : ms[k].start < i /\ i <= ms[k].end
          THEN " " ELSE CharAt(q, i)) \o C23_WithoutSpans(q, ms, i + 1)
\* C23: the cleaned query is the original text with exactly the union of the
\* matched spans removed, whitespace-normalised, also when spans overlap, and
\* "no more than N m" yields a max filter and no min filter.
C23_SpanRemoval ==
    analyzed_query # "" =>
        /\ cleaned_query =
               JoinSplitFrom(C23_WithoutSpans(analyzed_query,
                                              AllMatchesFrom(analyzed_query, 1), 1), 1, "")
        /\ Contains(ToLower(analyzed_query), "no more than") =>
               /\ "max_star" \in DOMAIN numeric_filters
               /\ \A key \in DOMAIN numeric_filters : ~OccursAt(key, "min_", 1)

\* C24: every direct vector hit (a match without a connection object) in a
\* response of the semantic path has a similarity of at least min_score, 0.7
\* by default; the list is in non-increasing score order and holds at most
\* top_k matches.
C24_MinScoreOnSemanticPath ==
    (Returned /\ path = "semantic" /\ batch_calls = 0) =>
        /\ \A k \in 1..Len(results) :
               results[k].from = "" => results[k].score >= 70 * ScoreUnit
        /\ \A k \in 1..(Len(results) - 1) : results[k].score >= results[k + 1].score
        /\ Len(results) <= top_k

\* the persons filter_search must return when the companies a person is
\* filtered by are those reached by relationships of the given types
C25_Persons(types) ==
    {i \in NodeIdx :
        /\ NodeSeq[i].label = "Person"
        /\ person_role_filters = NoneRoles \/ RoleMatches(NodeSeq[i], person_role_filters)
        /\ \E ctx \in {{e.to : e \in {f \in Edges : f.from = i /\ f.type \in types}}} :
              /\ batch_filters = {} \/ \E c \in ctx : AnyContained(batch_filters, NodeSeq[c].batch)
              /\ location_code = "" \/
                    \E c \in ctx : AnyContained(AliasesForCode(location_code), NodeSeq[c].location)
              /\ industry_filters = {} \/
                    \E c \in ctx : InIndustry(c, ExpandIndustries(industry_filters))}
\* filter_search has answered a person request
C25_PersonsFiltered == pc # "filter" /\ path = "filter_only" /\ filter_type = "person"
\* C25 as stated: FOUNDED companies are used only when founder is requested,
\* INVESTS_IN companies only when investor is requested, both only when both
\* roles are requested.
C25_RoleContextOnlyWhenRequested ==
    C25_PersonsFiltered =>
        {results[k].node : k \in 1..Len(results)} =
            C25_Persons({t \in {"FOUNDED", "INVESTS_IN"} :
                            \/ t = "FOUNDED" /\ "founder" \in person_role_filters
                            \/ t = "INVESTS_IN" /\ "investor" \in person_role_filters})
\* C25: as above, and with no role list given both relationship types are
\* used.
C25_RoleContext ==
    C25_PersonsFiltered =>
        {results[k].node : k \in 1..Len(results)} =
            C25_Persons({t \in {"FOUNDED", "INVESTS_IN"} :
                            \/ person_role_filters = NoneRoles
                            \/ t = "FOUNDED" /\ "founder" \in person_role_filters
                            \/ t = "INVESTS_IN" /\ "investor" \in person_role_filters})
C25_Witness ==
    /\ Returned /\ C25_PersonsFiltered /\ location_code = "nyc"
    /\ person_role_filters = {"founder", "investor"} /\ Len(results) = 4

\* the graph of the response: _build_visualization_data(results[:5])
C26_Graph == BuildVisualizationData(Take(results, 5), 1, << >>, << >>, {})
\* C26: in the graph built from the first five matches node ids are pairwise
\* distinct, both ends of every edge are node ids, every match is a node with
\* its own name as label, its type and its score, and a stub node (type
\* Unknown) exists only for a connection source that is not one of the matches.
C26_VisualizationGraph ==
    Returned =>
        \E g \in {C26_Graph}, ms \in {Take(results, 5)} :
            /\ \A a, b \in 1..Len(g.nodes) : a # b => g.nodes[a].id # g.nodes[b].id
            /\ \A e \in 1..Len(g.edges) :
                  /\ \E n \in 1..Len(g.nodes) : g.nodes[n].id = g.edges[e].from
                  /\ \E n \in 1..Len(g.nodes) : g.nodes[n].id = g.edges[e].to
            /\ \A k \in 1..Len(ms) : \E n \in 1..Len(g.nodes) :
                  g.nodes[n] = [id |-> ms[k].id, label |-> NodeSeq[ms[k].node].name,
                                type |-> ms[k].type, score |-> ms[k].score]
            /\ \A n \in 1..Len(g.nodes) :
                  g.nodes[n].type = "Unknown" =>
                      /\ \A k \in 1..Len(ms) : ms[k].id # g.nodes[n].id
                      /\ \E k \in 1..Len(ms) : ms[k].from = g.nodes[n].id

\* the ids of the companies whose OWNS or LIKELY_OWNS relationship to the
\* repository at position i has the highest confidence
C27_BestOwners(i) ==
    LET rels == {e \in Edges : e.to = i /\ e.type \in {"OWNS", "LIKELY_OWNS"}
                                 /\ NodeSeq[e.from].label = "Company"}
    IN  {NodeSeq[e.from].id : e \in {r \in rels : \A f \in rels : r.conf >= f.conf}}
\* C27: in the top-starred result and among the enriched hybrid matches each
\* repository appears at most once, and the company attached to it is an
\* owner of highest confidence among all its OWNS/LIKELY_OWNS owners.
C27_BestConfidenceOwner ==
    (Returned /\ path \in {"special", "semantic"}) =>
        \A k \in 1..Len(results) :
            results[k].type = "Repository" =>
                /\ \A j \in 1..Len(results) : j # k => results[j].id # results[k].id
                /\ C27_BestOwners(results[k].node) # {} =>
                       results[k].company \in C27_BestOwners(results[k].node)

\* C28: after any sequence of create_company_with_embedding calls for one
\* company id, the node's sources list holds every distinct source of those
\* calls exactly once, the list only grows, and the node's source stays the
\* source of the creating call.
C28_ProvenanceAccumulates ==
    [][ /\ \A i \in 1..Len(db') :
              db'[i].label = "Company" =>
                  /\ SeqToSet(db'[i].sources) =
                         {SanitizeCompanyData(x).source :
                             x \in {y \in applied' : /\ y.kind = "company"
                                                     /\ GenerateId(y, "company") = db'[i].id}}
                  /\ \A a, b \in 1..Len(db'[i].sources) :
                         a # b => db'[i].sources[a] # db'[i].sources[b]
                  /\ db'[i].source = db'[i].sources[1]
        /\ \A i \in 1..Len(db) :
              db[i].label = "Company" =>
                  /\ db'[i].id = db[i].id /\ db'[i].source = db[i].source
                  /\ Len(db'[i].sources) >= Len(db[i].sources)
                  /\ SubSeq(db'[i].sources, 1, Len(db[i].sources)) = db[i].sources ]_vars
C28_Witness ==
    \E i \in 1..Len(db) :
        /\ db[i].label = "Company" /\ db[i].sources = <<"manual", "yc">>
        /\ db[i].source = "manual"
        /\ last_upsert = [label |-> "Company", id |-> db[i].id, again |-> TRUE]

\* C29: after any number of create_relationships runs the SIMILAR_TO
\* relationships are those the latest run computed from the stored embeddings,
\* each joins two distinct nodes whose similarity is at least the threshold
\* 0.85, and no node has more than K = 3 of them
C29_Degree(n) == Cardinality({r \in similar_to : n \in r.ends})
C29_SparseSimilarTo ==
    DOMAIN similarity # {} =>
    /\ similar_to = MergeSimilar({}, similarity)
    /\ \A r \in similar_to : Cardinality(r.ends) = 2 /\ \A n, m \in r.ends : n # m => IndexScore(similarity, n, m) >= threshold /\ r.score = IndexScore(similarity, n, m)
    /\ \A n \in DOMAIN SimilarNodes : C29_Degree(n) <= topK

\* C30: in every execution of search the planner is called at most once (up
\* front for a complex query or once as the zero-result escalation, never
\* both), hybrid_search at most twice and the embedding provider at most
\* twice, and a second hybrid_search call follows only a first one that
\* returned no results
C30_SecondHybridAfterEmpty ==
    (hybrid_calls' = hybrid_calls + 1 /\ hybrid_calls >= 1) =>
        /\ hybrid_calls = 1 /\ results = << >> /\ path = "semantic"
        /\ planner_calls = 1 /\ ~IsComplexQuery(query)
C30_BoundedWork ==
    /\ [](planner_calls <= 1 /\ hybrid_calls <= 2 /\ embed_calls <= 2)
    /\ [](IsComplexQuery(query) /\ planner_calls = 1 => hybrid_calls <= 1)
    /\ [][C30_SecondHybridAfterEmpty]_vars
\* a search whose first hybrid_search found nothing has escalated, embedded
\* the planned focus and searched again
C30_Witness ==
    /\ pc = "post" /\ ~IsComplexQuery(query)
    /\ planner_calls = 1 /\ hybrid_calls = 2 /\ embed_calls = 2

=============================================================================
